---- MODULE Spec2Model ----
(***************************************************************************)
(* A model of the signal-scoring and backtesting pipeline of the stock     *)
(* analysis backend: the Forecast Models (services/stock/stock_predictor), *)
(* the Signal Analyzer (services/stock/stock_signal_analyzer), the         *)
(* walk-forward backtest (routers/stock/stock_backtest_router) and the     *)
(* multi-model comparison (routers/stock/stock_comparison_router).         *)
(*                                                                         *)
(* Conventions.                                                            *)
(*  - A row of an OHLCV table is identified by its date, an integer day    *)
(*    number; a table (DataFrame) is the dates of its rows, in date order. *)
(*    The provider returns, for a period, the trailing rows up to Today.   *)
(*  - Confidences are kept in hundredths (0.85 is 85) and, once scaled by  *)
(*    the per-model factor (1.1 is 110), in ten-thousandths.               *)
(*  - Scores are kept exactly: a category score is an integer of 0..100,   *)
(*    the composite score is kept in hundredths (75 is 7500).              *)
(*  - Messages are the English renderings of the source's literals.        *)
(***************************************************************************)
EXTENDS Integers, Sequences, FiniteSets, TLC

VARIABLES
    KERAS_AVAILABLE,   \* stock_predictor.py: the module-level import flag
    pc,                \* position of the request being served
    req,               \* the inputs of the request
    predictor,         \* the predictor instance of the request (Model State)
    train_log,         \* what the request's train() call saw and did
    split,             \* _run_backtest: the fetched table and its two slices
    result,            \* the record the handler returns
    market,            \* comparison: what the provider answers for the request's period
    runs,              \* comparison: the model runs, in submission order
    cursor,            \* comparison: the index the handler's current loop is at
    results,           \* comparison: the result set, model name -> record
    analysis           \* signal: what analyze_signal has computed so far

vars == <<KERAS_AVAILABLE, pc, req, predictor, train_log, split, result,
          market, runs, cursor, results, analysis>>

\* the variables only the comparison endpoints use
compare_vars == <<market, runs, cursor, results>>

\* the variables only the signal analysis uses
signal_vars == <<analysis>>

(***************************************************************************)
(* Bounds of the model.                                                    *)
(***************************************************************************)
\* the longest series the provider returns
MaxRows == 155
\* how many of the latest dates may carry a data-dependent undefined
\* indicator (a 0/0 RSI of a flat window, an infinite volume change)
MaxUndefined == 1

Today == MaxRows

Max(a, b) == IF a >= b THEN a ELSE b
Min(a, b) == IF a <= b THEN a ELSE b

(***************************************************************************)
(* Tables.  A DataFrame is [first, last, holes]: the rows dated first..last *)
(* in date order, except the dates of `holes` (rows dropped from inside);  *)
(* first and last are rows of the table, and the empty table is EmptyFrame. *)
(***************************************************************************)
EmptyFrame == [first |-> 1, last |-> 0, holes |-> {}]

\* the table of the rows dated lo..hi that are not in `drop`: its first
\* (last) row is the earliest (latest) date of lo..hi that is not dropped
Frame(lo, hi, drop) ==
    LET k == Cardinality(drop)
        heads == {d \in lo..Min(hi, lo + k) : d \notin drop}
        tails == {d \in Max(lo, hi - k)..hi : d \notin drop}
    IN  IF heads = {} THEN EmptyFrame
        ELSE LET first == CHOOSE d \in heads : \A e \in heads : d <= e
                 last == CHOOSE d \in tails : \A e \in tails : e <= d
             IN  [first |-> first, last |-> last, holes |-> {d \in drop : first < d /\ d < last}]

\* a table without holes, built without enumerating its rows
Interval(lo, hi) == IF hi < lo THEN EmptyFrame ELSE [first |-> lo, last |-> hi, holes |-> {}]

\* len(df)
Length(df) == IF df.last < df.first THEN 0 ELSE df.last - df.first + 1 - Cardinality(df.holes)

\* whether the table has a row dated d
HasRow(df, d) == df.first <= d /\ d <= df.last /\ d \notin df.holes

\* df.iloc[:k] and df.iloc[k:] of a table without holes (a fetched table)
iloc_upto(df, k) == Interval(df.first, Min(df.last, df.first + k - 1))
\* (mutation) the slice starts one row late
iloc_from_off_by_one(df, k) == Interval(Max(df.first, df.first + k + 1), df.last)

iloc_from(df, k) == Interval(Max(df.first, df.first + k), df.last)

(***************************************************************************)
(* The market-data provider: yf.Ticker(t).history(period=p).               *)
(* It raises, or returns the trailing n rows up to Today in date order;    *)
(* `undefined` are the dates whose indicators come out NaN whatever their  *)
(* look-back.                                                              *)
(***************************************************************************)
UndefinedSets == SUBSET ((Today - MaxUndefined + 1)..Today)

History(n, u) ==
    [kind |-> "ok", rows |-> Interval(Today - n + 1, Today),
     undefined |-> {d \in u : d > Today - n}]

FetchError == [kind |-> "error", rows |-> EmptyFrame, undefined |-> {}]

FetchOutcomes ==
    {FetchError} \cup {History(n, u) : n \in 0..MaxRows, u \in UndefinedSets}

(***************************************************************************)
(* BasePredictor                                                           *)
(***************************************************************************)
\* the longest look-back window of _calculate_technical_indicators (MA60):
\* the first LongestWindow - 1 rows of a table have an undefined MA60
LongestWindow == 60

\* _calculate_technical_indicators followed by dropna(): the rows of the
\* fetched table whose indicators are all defined
\* (mutation) no row is dropped
dropna_keeps_incomplete(fetch) == fetch.rows

dropna(fetch) ==
    LET lo == fetch.rows.first + (LongestWindow - 1)
        hi == fetch.rows.last
    IN  IF hi < lo THEN EmptyFrame
        ELSE IF fetch.undefined = {} THEN Interval(lo, hi)
        ELSE Frame(lo, hi, fetch.undefined)

\* _calculate_confidence, in hundredths
base_confidence == 85
decay_rate == 2
confidence_floor == 30
confidence_cap == 100

\* (mutation) the decayed value returned without the lower clamp
calculate_confidence_unclamped(days_ahead) ==
    Min(confidence_cap, base_confidence - days_ahead * decay_rate)

calculate_confidence(days_ahead) ==
    Max(confidence_floor, Min(confidence_cap, base_confidence - days_ahead * decay_rate))

\* BasePredictor.__init__ and the subclasses' __init__: nothing fitted, no table
NewPredictor(model_type) ==
    [model_type |-> model_type, has_df |-> FALSE, last_df |-> EmptyFrame,
     fitted |-> FALSE, fitted_on |-> EmptyFrame]

\* what train() hands back: its return value, the predictor as it leaves it,
\* and (not visible to the caller) the place it returned from; `raised` tells
\* whether an exception left the call instead of a return value (the body of
\* train() is one try/except Exception, so none does)
TrainOutcome(ok, cause, p) ==
    [ok |-> ok, cause |-> cause, raised |-> FALSE, predictor |-> p]

(***************************************************************************)
(* LinearRegressionPredictor.train / RandomForestPredictor.train           *)
(***************************************************************************)
\* minimum number of fetched rows, and of clean rows
min_raw_rows == 30
min_clean_rows == 20

\* (mutation) a train() that leaves a table the caller assigned in place
sklearn_train_keeps_assigned(p, fetch) ==
    IF fetch.kind = "error" THEN TrainOutcome(FALSE, "exception", p)
    ELSE IF Length(fetch.rows) = 0 \/ Length(fetch.rows) < min_raw_rows
    THEN TrainOutcome(FALSE, "raw", p)
    ELSE LET X == dropna(fetch)
         IN  IF Length(X) < min_clean_rows THEN TrainOutcome(FALSE, "clean", p)
             ELSE TrainOutcome(TRUE, "fitted",
                      [p EXCEPT !.fitted = TRUE, !.fitted_on = X,
                                !.has_df = TRUE,
                                !.last_df = IF p.has_df THEN p.last_df ELSE X])

sklearn_train(p, fetch) ==
    IF fetch.kind = "error" THEN TrainOutcome(FALSE, "exception", p)
    ELSE IF Length(fetch.rows) = 0 \/ Length(fetch.rows) < min_raw_rows
    THEN TrainOutcome(FALSE, "raw", p)
    ELSE LET X == dropna(fetch)
         IN  IF Length(X) < min_clean_rows THEN TrainOutcome(FALSE, "clean", p)
             ELSE TrainOutcome(TRUE, "fitted",
                      [p EXCEPT !.fitted = TRUE, !.fitted_on = X,
                                !.has_df = TRUE, !.last_df = X])

LinearRegressionPredictor_train(p, fetch) == sklearn_train(p, fetch)

RandomForestPredictor_train(p, fetch) == sklearn_train(p, fetch)

(***************************************************************************)
(* LSTMPredictor.train                                                     *)
(***************************************************************************)
lookback == 60
lstm_extra_rows == 30
min_sequences == 20

\* _create_sequences: one sequence per row after the first `lookback`;
\* the number of sequences
create_sequences(df) == Max(0, Length(df) - lookback)

\* the row check applied to the fetched table, before the incomplete rows go
LSTMPredictor_train_raw_check(p, fetch, keras) ==
    IF ~keras THEN TrainOutcome(FALSE, "capability", p)
    ELSE IF fetch.kind = "error" THEN TrainOutcome(FALSE, "exception", p)
    ELSE IF Length(fetch.rows) = 0 THEN TrainOutcome(FALSE, "raw", p)
    ELSE LET df == dropna(fetch)
         IN  IF Length(fetch.rows) < lookback + lstm_extra_rows
             THEN TrainOutcome(FALSE, "clean", p)
             ELSE IF create_sequences(df) < min_sequences
             THEN TrainOutcome(FALSE, "clean", p)
             ELSE TrainOutcome(TRUE, "fitted",
                      [p EXCEPT !.fitted = TRUE, !.fitted_on = df,
                                !.has_df = TRUE, !.last_df = df])

LSTMPredictor_train(p, fetch, keras) ==
    IF ~keras THEN TrainOutcome(FALSE, "capability", p)
    ELSE IF fetch.kind = "error" THEN TrainOutcome(FALSE, "exception", p)
    ELSE IF Length(fetch.rows) = 0 THEN TrainOutcome(FALSE, "raw", p)
    ELSE LET df == dropna(fetch)
         IN  IF Length(df) < lookback + lstm_extra_rows THEN TrainOutcome(FALSE, "clean", p)
             ELSE IF create_sequences(df) < min_sequences
             THEN TrainOutcome(FALSE, "clean", p)
             ELSE TrainOutcome(TRUE, "fitted",
                      [p EXCEPT !.fitted = TRUE, !.fitted_on = df,
                                !.has_df = TRUE, !.last_df = df])

\* predictor.train(), dispatched on the predictor's class
train(p, fetch, keras) ==
    CASE p.model_type = "linear" -> LinearRegressionPredictor_train(p, fetch)
      [] p.model_type = "random_forest" -> RandomForestPredictor_train(p, fetch)
      [] OTHER -> LSTMPredictor_train(p, fetch, keras)

(***************************************************************************)
(* predict_next_days                                                       *)
(***************************************************************************)
\* the per-model factor on the confidence, in hundredths
linear_confidence_scale == 100
random_forest_confidence_scale == 110
lstm_confidence_scale == 115

\* (mutation) a sequence-model factor of 1.25
confidence_scale_overtrusting(model_type) ==
    CASE model_type = "linear" -> 100
      [] model_type = "random_forest" -> 110
      [] OTHER -> 125

confidence_scale(model_type) ==
    CASE model_type = "linear" -> linear_confidence_scale
      [] model_type = "random_forest" -> random_forest_confidence_scale
      [] OTHER -> lstm_confidence_scale

\* a point that carries the confidence of the step before it
ForecastPoint_late(date, model_type, i) ==
    [date |-> date,
     confidence |-> calculate_confidence(i - 1) * confidence_scale(model_type)]

\* one Forecast Point; the confidence in ten-thousandths
ForecastPoint(date, model_type, i) ==
    [date |-> date, confidence |-> calculate_confidence(i) * confidence_scale(model_type)]

\* the loop of LinearRegressionPredictor/RandomForestPredictor.predict_next_days
\* from step i on: the point is dated one day after the buffer's last row and
\* the synthetic row of that date becomes the buffer's last row.  The steps
\* i..days are evaluated in two halves, the second half starting from the
\* buffer the first half leaves, which keeps the evaluation shallow
RECURSIVE sklearn_predict_loop(_, _, _, _)
sklearn_predict_loop(model_type, last_date, i, days) ==
    IF i > days THEN <<>>
    ELSE IF i = days
    THEN LET predict_date == last_date + 1
         IN  <<ForecastPoint(predict_date, model_type, i)>>
    ELSE LET mid == (i + days) \div 2
             head == sklearn_predict_loop(model_type, last_date, i, mid)
         IN  head \o sklearn_predict_loop(model_type, head[Len(head)].date, mid + 1, days)

\* fail_step: the step whose indicator recomputation, scaling or prediction
\* raises (0: none does)
sklearn_predict_next_days(p, days, fail_step) ==
    IF ~p.has_df \/ ~p.fitted \/ Length(p.last_df) = 0 THEN <<>>
    ELSE IF fail_step \in 1..days THEN <<>>
    ELSE sklearn_predict_loop(p.model_type, p.last_df.last, 1, days)

\* LSTMPredictor.predict_next_days: point i is dated i days after the table's last row
LSTMPredictor_predict_next_days(p, days, fail_step, keras) ==
    IF ~keras \/ ~p.fitted THEN <<>>
    ELSE IF ~p.has_df \/ Length(p.last_df) < lookback THEN <<>>
    ELSE IF fail_step \in 1..days THEN <<>>
    ELSE [i \in 1..days |-> ForecastPoint(p.last_df.last + i, p.model_type, i)]

predict_next_days(p, days, fail_step, keras) ==
    IF p.model_type = "lstm" THEN LSTMPredictor_predict_next_days(p, days, fail_step, keras)
    ELSE sklearn_predict_next_days(p, days, fail_step)

(***************************************************************************)
(* predict_stock_price                                                     *)
(***************************************************************************)
ModelTypes == {"linear", "random_forest", "lstm"}

\* forecast horizon accepted by the endpoints (Query(ge=1, le=90))
min_days == 1
max_days == 90

\* the capability refusal worded as the training failure
MSG_KERAS_MISSING_conflated == "cannot get enough historical data for prediction"

MSG_KERAS_MISSING == "LSTM model requires TensorFlow/Keras, please install the packages first"
MSG_UNSUPPORTED_MODEL == "unsupported model type"
MSG_INSUFFICIENT_HISTORY == "cannot get enough historical data for prediction"
MSG_PREDICTION_FAILED == "prediction failed"

Failure(message) ==
    [success |-> FALSE, raised |-> FALSE, message |-> message, predictions |-> <<>>,
     last_update |-> 0]

\* an exception leaving the function
Raised == [success |-> FALSE, raised |-> TRUE, message |-> "exception",
           predictions |-> <<>>, last_update |-> 0]

NoTrain == [called |-> FALSE, ok |-> FALSE, raised |-> FALSE, cause |-> "none",
            fetched |-> FALSE, rows |-> 0]

\* train() fetches on every path but the sequence model's capability exit
TrainLog(fetch, outcome) ==
    [called |-> TRUE, ok |-> outcome.ok, raised |-> outcome.raised, cause |-> outcome.cause,
     fetched |-> outcome.cause # "capability",
     rows |-> IF outcome.cause = "capability" THEN 0 ELSE Length(fetch.rows)]

\* the whole function: the record it returns, the predictor it built (if any)
\* and what its train() call did
predict_stock_price(model_type, days, fetch, fail_step, keras) ==
    IF model_type = "lstm" /\ ~keras
    THEN [result |-> Failure(MSG_KERAS_MISSING), predictor |-> NewPredictor("none"),
          train_log |-> NoTrain]
    ELSE IF model_type \notin ModelTypes
    THEN [result |-> Failure(MSG_UNSUPPORTED_MODEL), predictor |-> NewPredictor("none"),
          train_log |-> NoTrain]
    ELSE LET outcome == train(NewPredictor(model_type), fetch, keras)
             p == outcome.predictor
             predictions == predict_next_days(p, days, fail_step, keras)
         IN  [predictor |-> p,
              train_log |-> TrainLog(fetch, outcome),
              result |->
                  IF outcome.raised THEN Raised
                  ELSE IF ~outcome.ok THEN Failure(MSG_INSUFFICIENT_HISTORY)
                  ELSE IF Len(predictions) = 0 THEN Failure(MSG_PREDICTION_FAILED)
                  ELSE [success |-> TRUE, raised |-> FALSE, message |-> "",
                        predictions |-> predictions,
                        last_update |-> p.last_df.last]]

(***************************************************************************)
(* Serving one forecast request (GET /stock/{ticker}/predict)              *)
(***************************************************************************)
\* the latest step of predict_next_days that may raise
MaxFailStep == 1

\* _run_backtest before it has split anything
NoSplit == [ran |-> FALSE, fetched_ok |-> FALSE, done |-> FALSE, fetched |-> EmptyFrame,
            train_df |-> EmptyFrame, actual_df |-> EmptyFrame]

NoResult == [success |-> FALSE, raised |-> FALSE, message |-> "pending",
             predictions |-> <<>>, last_update |-> 0]

\* no signal is being analysed
NoAnalysis ==
    [rows |-> 0, Close |-> 0, trend |-> 0, momentum |-> 0, volume |-> 0,
     volatility |-> 0, ai_prediction |-> 0, score |-> 0, signal |-> "none"]

\* no comparison is being served
NoComparison ==
    /\ market = FetchError
    /\ runs = <<>>
    /\ cursor = 0
    /\ results = <<>>

InitPredict ==
    /\ KERAS_AVAILABLE \in BOOLEAN
    /\ pc = "request"
    /\ req \in [endpoint : {"predict"}, model_type : ModelTypes \cup {"arima"},
                days : min_days..max_days]
    /\ predictor = NewPredictor("none")
    /\ train_log = NoTrain
    /\ split = NoSplit
    /\ result = NoResult
    /\ analysis = NoAnalysis
    /\ NoComparison

PredictStockPrice ==
    /\ pc = "request"
    /\ req.endpoint = "predict"
    /\ \E fetch \in FetchOutcomes, fail_step \in 0..MaxFailStep :
          \E out \in {predict_stock_price(req.model_type, req.days, fetch, fail_step,
                                          KERAS_AVAILABLE)} :
              /\ result' = out.result
              /\ predictor' = out.predictor
              /\ train_log' = out.train_log
    /\ pc' = "done"
    /\ UNCHANGED signal_vars
    /\ UNCHANGED <<KERAS_AVAILABLE, req, split>>
    /\ UNCHANGED compare_vars

NextPredict == PredictStockPrice

SpecPredict == InitPredict /\ [][NextPredict]_vars

(***************************************************************************)
(* _run_backtest                                                           *)
(***************************************************************************)
\* backtest horizon accepted by the endpoints (Query(ge=7, le=90))
min_backtest_days == 7
max_backtest_days == 90

\* fewest fetched rows, and fewest rows before the split point
min_backtest_rows == 60
min_training_rows == 60

MSG_BACKTEST_HISTORY == "not enough historical data to backtest"
MSG_TRAINING_DATA == "not enough training data"
MSG_TRAINING_FAILED == "model training failed"

BacktestFailure(message) ==
    [success |-> FALSE, raised |-> FALSE, status |-> 200, message |-> message,
     comparison_data |-> <<>>, backtest_days |-> 0, split_date |-> 0]

\* an exception leaving the function; the endpoint turns it into this status
HttpError(status, detail) ==
    [success |-> FALSE, raised |-> TRUE, status |-> status, message |-> detail,
     comparison_data |-> <<>>, backtest_days |-> 0, split_date |-> 0]

\* the loop pairing forecast point i with the i-th actual row
comparison_rows(predictions, actual_df) ==
    [i \in 1..Min(Len(predictions), Length(actual_df)) |->
        [date |-> predictions[i].date,
         actual_date |-> actual_df.first + i - 1,
         confidence |-> predictions[i].confidence]]

\* the whole function.  ext: what the fetch of the extended period returns;
\* refetch: what the fetch inside train() returns
run_backtest(model_type, backtest_days, ext, refetch, fail_step, keras) ==
    LET df == ext.rows
        total_days == Length(df)
        split_index == total_days - backtest_days
        train_df == iloc_upto(df, split_index)
        actual_df == iloc_from(df, split_index)
        none == [predictor |-> NewPredictor("none"), train_log |-> NoTrain]
        unsplit == [ran |-> TRUE, fetched_ok |-> TRUE, done |-> FALSE, fetched |-> df,
                    train_df |-> EmptyFrame, actual_df |-> EmptyFrame]
        halves == [ran |-> TRUE, fetched_ok |-> TRUE, done |-> TRUE, fetched |-> df,
                   train_df |-> train_df, actual_df |-> actual_df]
    IN  IF ext.kind = "error"
        THEN none @@ [split |-> [unsplit EXCEPT !.fetched_ok = FALSE],
                      result |-> HttpError(500, "backtest failed")]
        ELSE IF total_days = 0 \/ total_days < min_backtest_rows
        THEN none @@ [split |-> unsplit, result |-> BacktestFailure(MSG_BACKTEST_HISTORY)]
        ELSE IF split_index < min_training_rows
        THEN none @@ [split |-> unsplit, result |-> BacktestFailure(MSG_TRAINING_DATA)]
        ELSE IF model_type \notin ModelTypes
        THEN none @@ [split |-> halves, result |-> BacktestFailure(MSG_UNSUPPORTED_MODEL)]
        ELSE LET \* predictor.last_df = predictor._calculate_technical_indicators(train_df)
                 preset == [NewPredictor(model_type) EXCEPT !.has_df = TRUE, !.last_df = train_df]
                 outcome == train(preset, refetch, keras)
                 p == outcome.predictor
                 actual_days == Length(actual_df)
                 predictions == predict_next_days(p, actual_days, fail_step, keras)
             IN  [predictor |-> p,
                  train_log |-> TrainLog(refetch, outcome),
                  split |-> halves,
                  result |->
                      IF outcome.raised THEN HttpError(500, "backtest failed")
                      ELSE IF ~outcome.ok THEN BacktestFailure(MSG_TRAINING_FAILED)
                      ELSE IF Len(predictions) = 0 THEN BacktestFailure(MSG_PREDICTION_FAILED)
                      ELSE [success |-> TRUE, raised |-> FALSE, status |-> 200, message |-> "",
                            comparison_data |-> comparison_rows(predictions, actual_df),
                            backtest_days |-> actual_days,
                            split_date |-> train_df.last]]

(***************************************************************************)
(* Serving one backtest request (GET /stock/{ticker}/backtest)             *)
(***************************************************************************)

\* the fetch inside train() is tried with an empty table, the raw-row minimum,
\* the shortest tables the scikit-learn models and the sequence model can be
\* fitted on, and the longest table
RefetchOutcomes ==
    {FetchError}
    \cup {History(t, u) :
             t \in {0, min_raw_rows, LongestWindow - 1 + min_clean_rows,
                    LongestWindow - 1 + lookback + lstm_extra_rows, MaxRows},
             u \in UndefinedSets}

ExtendedFetchOutcomes == {FetchError} \cup {History(n, {}) : n \in 0..MaxRows}

\* backtest_model: validation, then _run_backtest
backtest_model(model_type, backtest_days, ext, refetch, fail_step, keras) ==
    LET rejected == [predictor |-> NewPredictor("none"), train_log |-> NoTrain,
                     split |-> NoSplit]
    IN  IF model_type \notin ModelTypes
        THEN rejected @@ [result |-> HttpError(400, MSG_UNSUPPORTED_MODEL)]
        ELSE IF model_type = "lstm" /\ ~keras
        THEN rejected @@ [result |-> HttpError(400, "LSTM model requires TensorFlow/Keras")]
        ELSE run_backtest(model_type, backtest_days, ext, refetch, fail_step, keras)

InitBacktest ==
    /\ KERAS_AVAILABLE \in BOOLEAN
    /\ pc = "request"
    /\ req \in [endpoint : {"backtest"}, model_type : ModelTypes \cup {"arima"},
                days : min_backtest_days..max_backtest_days]
    /\ predictor = NewPredictor("none")
    /\ train_log = NoTrain
    /\ split = NoSplit
    /\ result = NoResult
    /\ analysis = NoAnalysis
    /\ NoComparison

BacktestModel ==
    /\ pc = "request"
    /\ req.endpoint = "backtest"
    /\ \E ext \in ExtendedFetchOutcomes, refetch \in RefetchOutcomes, fail_step \in 0..MaxFailStep :
          \E out \in {backtest_model(req.model_type, req.days, ext, refetch, fail_step,
                                     KERAS_AVAILABLE)} :
              /\ result' = out.result
              /\ predictor' = out.predictor
              /\ train_log' = out.train_log
              /\ split' = out.split
    /\ pc' = "done"
    /\ UNCHANGED signal_vars
    /\ UNCHANGED <<KERAS_AVAILABLE, req>>
    /\ UNCHANGED compare_vars

NextBacktest == BacktestModel

SpecBacktest == InitBacktest /\ [][NextBacktest]_vars

(***************************************************************************)
(* Multi-model comparison: _run_models_parallel and the loop of            *)
(* compare_model_backtest                                                  *)
(***************************************************************************)
\* a comparison is asked for as many names as there are models at most (the
\* default asks for all of them); a name may repeat
MaxModels == Cardinality(ModelTypes)

MSG_KERAS_MISSING_BACKTEST == "LSTM requires TensorFlow/Keras"
MSG_EXCEPTION == "str(e)"

\* a dict assignment that drops the other keys
Put_forgets_others(d, k, v) == [x \in {k} |-> v]

\* dict assignment d[k] = v
Put(d, k, v) == [x \in (DOMAIN d) \cup {k} |-> IF x = k THEN v ELSE d[x]]

\* the keys of the futures dict in insertion order: each name once, at the
\* place of its first submission
RECURSIVE FutureKeys(_)
FutureKeys(models) ==
    IF models = <<>> THEN <<>>
    ELSE LET front == SubSeq(models, 1, Len(models) - 1)
             m == models[Len(models)]
         IN  IF \E i \in 1..Len(front) : front[i] = m
             THEN FutureKeys(front)
             ELSE Append(FutureKeys(front), m)

\* futures[model]: the future of the latest submission of that name
FutureOf(models, m) ==
    CHOOSE i \in 1..Len(models) :
        models[i] = m /\ \A j \in (i + 1)..Len(models) : models[j] # m

\* one entry of the result set
Slot(success, key, text, model_name, payload) ==
    [success |-> success, key |-> key, text |-> text, model_name |-> model_name,
     payload |-> payload]

\* what a run leaves: its record and (not visible to the caller) whether it
\* called train()
RunOutcome(record, trained) == [record |-> record, trained |-> trained]

\* _run_single_model_with_timing (the elapsed time left out); crash: an
\* exception raised in predict_stock_price after the forecast, where the
\* answer is assembled
run_single_model_with_timing(model, days, fetch, fail_step, crash, keras) ==
    LET out == predict_stock_price(model, days, fetch, fail_step, keras)
        r == out.result
    IN  RunOutcome(
            IF r.raised \/ (crash /\ r.success)
            THEN Slot(FALSE, "error", MSG_EXCEPTION, model, <<>>)
            ELSE IF r.success THEN Slot(TRUE, "none", "", model, r.predictions)
            ELSE Slot(FALSE, "error", r.message, model, <<>>),
            out.train_log.called)

\* one iteration of the loop of compare_model_backtest; _run_backtest raises
\* when the provider does
compare_backtest_iteration(model_name, backtest_days, ext, refetch, fail_step, keras) ==
    IF model_name = "lstm" /\ ~keras
    THEN RunOutcome(Slot(FALSE, "error", MSG_KERAS_MISSING_BACKTEST, "", <<>>), FALSE)
    ELSE LET out == run_backtest(model_name, backtest_days, ext, refetch, fail_step, keras)
             r == out.result
         IN  RunOutcome(
                 IF r.raised THEN Slot(FALSE, "error", MSG_EXCEPTION, "", <<>>)
                 ELSE IF r.success THEN Slot(TRUE, "none", "", model_name, r.comparison_data)
                 ELSE Slot(FALSE, "message", r.message, "", <<>>),
                 out.train_log.called)

\* a run of the worker pool: not yet submitted, queued, running or done
NewRun(model) ==
    [model |-> model, state |-> "new", crash |-> FALSE, fail_step |-> 0,
     ext |-> FetchError, trained |-> FALSE, record |-> Slot(FALSE, "none", "pending", model, <<>>)]

\* the tables the provider is tried with in a comparison: a raising fetch, an
\* empty table and the longest table
CompareFetchOutcomes == {FetchError, History(0, {}), History(MaxRows, {})}

ModelLists == UNION {[1..k -> ModelTypes] : k \in 1..MaxModels}

InitCompare ==
    /\ KERAS_AVAILABLE \in BOOLEAN
    /\ \/ /\ pc = "validate"
          /\ req \in [endpoint : {"predict/compare"},
                      models : UNION {[1..k -> ModelTypes \cup {"arima"}] : k \in 1..MaxModels},
                      days : {min_days, max_days}]
       \/ /\ pc = "loop"
          /\ req \in [endpoint : {"backtest/compare"}, models : ModelLists,
                      days : {min_backtest_days, max_backtest_days}]
    /\ market \in CompareFetchOutcomes
    /\ runs = [i \in 1..Len(req.models) |-> NewRun(req.models[i])]
    /\ cursor = 1
    /\ results = <<>>
    /\ predictor = NewPredictor("none")
    /\ train_log = NoTrain
    /\ split = NoSplit
    /\ result = NoResult
    /\ analysis = NoAnalysis

\* the validation of compare_prediction_models: a name outside valid_models
\* raises HTTPException(400) inside the handler's try block, whose only
\* handler is `except Exception`, and HTTPException is an Exception: the
\* request is answered by the HTTPException(500, str(e)) raised there
ValidateModels ==
    /\ pc = "validate"
    /\ LET invalid_models == SelectSeq(req.models, LAMBDA m : m \notin ModelTypes)
       IN  IF invalid_models # <<>>
           THEN /\ result' = HttpError(500, MSG_EXCEPTION)
                /\ pc' = "done"
           ELSE /\ result' = result
                /\ pc' = "submit"
    /\ UNCHANGED signal_vars
    /\ UNCHANGED <<KERAS_AVAILABLE, req, predictor, train_log, split, market, runs,
                   cursor, results>>

\* executor.submit(...) of the model at the cursor; after the last one the
\* handler turns to collecting
Submit ==
    /\ pc = "submit"
    /\ runs' = [runs EXCEPT ![cursor].state = "queued"]
    /\ IF cursor = Len(req.models)
       THEN pc' = "collect" /\ cursor' = 1
       ELSE pc' = pc /\ cursor' = cursor + 1
    /\ UNCHANGED signal_vars
    /\ UNCHANGED <<KERAS_AVAILABLE, req, predictor, train_log, split, result, market, results>>

\* a pool thread takes a queued run (max_workers = len(models): one thread each)
WorkerStart(i) ==
    /\ runs[i].state = "queued"
    /\ runs' = [runs EXCEPT ![i].state = "running"]
    /\ UNCHANGED signal_vars
    /\ UNCHANGED <<KERAS_AVAILABLE, pc, req, predictor, train_log, split, result,
                   market, cursor, results>>

\* the run returns from _run_single_model_with_timing
WorkerFinish(i) ==
    /\ runs[i].state = "running"
    /\ \E fail_step \in 0..MaxFailStep, crash \in BOOLEAN :
          \E out \in {run_single_model_with_timing(runs[i].model, req.days, market,
                                                    fail_step, crash, KERAS_AVAILABLE)} :
              runs' = [runs EXCEPT ![i] =
                          [@ EXCEPT !.state = "done", !.crash = crash,
                                    !.fail_step = fail_step, !.trained = out.trained,
                                    !.record = out.record]]
    /\ UNCHANGED signal_vars
    /\ UNCHANGED <<KERAS_AVAILABLE, pc, req, predictor, train_log, split, result,
                   market, cursor, results>>

\* results[model] = future.result() for the key at the cursor: waits until
\* that future is done
Collect ==
    /\ pc = "collect"
    /\ LET keys == FutureKeys(req.models)
           model == keys[cursor]
           future == runs[FutureOf(req.models, model)]
       IN  /\ future.state = "done"
           /\ results' = Put(results, model, future.record)
           /\ IF cursor = Len(keys)
              THEN pc' = "shutdown" /\ cursor' = cursor
              ELSE pc' = pc /\ cursor' = cursor + 1
    /\ UNCHANGED signal_vars
    /\ UNCHANGED <<KERAS_AVAILABLE, req, predictor, train_log, split, result, market, runs>>

\* leaving the `with ThreadPoolExecutor` block: waits for every run
Shutdown ==
    /\ pc = "shutdown"
    /\ \A i \in 1..Len(runs) : runs[i].state = "done"
    /\ pc' = "done"
    /\ UNCHANGED signal_vars
    /\ UNCHANGED <<KERAS_AVAILABLE, req, predictor, train_log, split, result,
                   market, runs, cursor, results>>

\* one iteration of the loop of compare_model_backtest
CompareBacktestIteration ==
    /\ pc = "loop"
    /\ \E ext \in CompareFetchOutcomes, fail_step \in 0..MaxFailStep :
          \E out \in {compare_backtest_iteration(req.models[cursor], req.days, ext, market,
                                                  fail_step, KERAS_AVAILABLE)} :
              /\ results' = Put(results, req.models[cursor], out.record)
              /\ runs' = [runs EXCEPT ![cursor] =
                             [@ EXCEPT !.state = "done", !.fail_step = fail_step, !.ext = ext,
                                       !.trained = out.trained, !.record = out.record]]
    /\ IF cursor = Len(req.models)
       THEN pc' = "done" /\ cursor' = cursor
       ELSE pc' = pc /\ cursor' = cursor + 1
    /\ UNCHANGED signal_vars
    /\ UNCHANGED <<KERAS_AVAILABLE, req, predictor, train_log, split, result, market>>

NextCompare ==
    \/ ValidateModels
    \/ Submit
    \/ \E i \in 1..Len(runs) : WorkerStart(i)
    \/ \E i \in 1..Len(runs) : WorkerFinish(i)
    \/ Collect
    \/ Shutdown
    \/ CompareBacktestIteration

SpecCompare == InitCompare /\ [][NextCompare]_vars

(***************************************************************************)
(* TradingSignalAnalyzer (services/stock/stock_signal_analyzer.py)         *)
(*                                                                         *)
(* A cell of a row is an integer or NaN; every comparison with NaN is      *)
(* false and arithmetic on NaN gives NaN, as for the floats of the source. *)
(* A quotient is never formed: x / y * 100 > k is decided as 100 x > k y   *)
(* for y > 0, which agrees with the floats on the cells drawn here.        *)
(***************************************************************************)
\* the missing value of a cell
NaN == -999999

gt(a, b) == a # NaN /\ b # NaN /\ a > b
lt(a, b) == a # NaN /\ b # NaN /\ a < b
ge(a, b) == a # NaN /\ b # NaN /\ a >= b
le(a, b) == a # NaN /\ b # NaN /\ a <= b
sub(a, b) == IF a = NaN \/ b = NaN THEN NaN ELSE a - b
add(a, b) == IF a = NaN \/ b = NaN THEN NaN ELSE a + b
mul(a, b) == IF a = NaN \/ b = NaN THEN NaN ELSE a * b

\* self.signal_weights, in percent
signal_weights ==
    [trend |-> 30, momentum |-> 25, volume |-> 20, volatility |-> 15, ai_prediction |-> 10]

neutral_score == 50
min_score == 0
max_score == 100

\* a category score returned without the clamp
clamp_score_missing(score) == score

\* max(0, min(100, score))
clamp_score(score) == Max(min_score, Min(max_score, score))

\* ---- _analyze_trend ----
\* a MACD on its signal line counted with the bullish side
macd_impact_equality_bullish(latest, previous) ==
    IF ge(latest.MACD, latest.MACD_Signal)
    THEN IF le(previous.MACD, previous.MACD_Signal) THEN 25 ELSE 15
    ELSE IF ge(previous.MACD, previous.MACD_Signal) THEN -25 ELSE -15

macd_impact(latest, previous) ==
    IF gt(latest.MACD, latest.MACD_Signal)
    THEN IF le(previous.MACD, previous.MACD_Signal) THEN 25 ELSE 15
    ELSE IF ge(previous.MACD, previous.MACD_Signal) THEN -25 ELSE -15

macd_hist_impact(latest, previous) ==
    IF gt(latest.MACD_Hist, 0) /\ gt(latest.MACD_Hist, previous.MACD_Hist) THEN 10
    ELSE IF lt(latest.MACD_Hist, 0) /\ lt(latest.MACD_Hist, previous.MACD_Hist) THEN -10
    ELSE 0

adx_threshold == 25

dmi_impact(latest) ==
    IF gt(latest.ADX, adx_threshold)
    THEN IF gt(latest.DMI_Plus, latest.DMI_Minus) THEN 15 ELSE -15
    ELSE 0

check_ma_alignment(latest) ==
    IF gt(latest.MA5, latest.MA10) /\ gt(latest.MA10, latest.MA20) /\ gt(latest.MA20, latest.MA60)
    THEN "bullish"
    ELSE IF lt(latest.MA5, latest.MA10) /\ lt(latest.MA10, latest.MA20)
            /\ lt(latest.MA20, latest.MA60)
    THEN "bearish"
    ELSE "mixed"

ma_alignment_impact(latest) ==
    IF check_ma_alignment(latest) = "bullish" THEN 10
    ELSE IF check_ma_alignment(latest) = "bearish" THEN -10
    ELSE 0

price_vs_ma60_impact(latest) == IF gt(latest.Close, latest.MA60) THEN 5 ELSE -5

analyze_trend(latest, previous) ==
    clamp_score(neutral_score + macd_impact(latest, previous)
                + macd_hist_impact(latest, previous) + dmi_impact(latest)
                + ma_alignment_impact(latest) + price_vs_ma60_impact(latest))

\* ---- _analyze_momentum ----
rsi_impact(latest) ==
    IF lt(latest.RSI, 30) THEN 20
    ELSE IF gt(latest.RSI, 70) THEN -20
    ELSE IF le(40, latest.RSI) /\ le(latest.RSI, 60) THEN 0
    ELSE IF gt(latest.RSI, 60) THEN 10
    ELSE -10

kdj_cross_impact(latest, previous) ==
    IF gt(latest.KDJ_K, latest.KDJ_D) /\ le(previous.KDJ_K, previous.KDJ_D) THEN 15
    ELSE IF lt(latest.KDJ_K, latest.KDJ_D) /\ ge(previous.KDJ_K, previous.KDJ_D) THEN -15
    ELSE 0

kdj_j_impact(latest) ==
    IF lt(latest.KDJ_J, 20) THEN 10
    ELSE IF gt(latest.KDJ_J, 80) THEN -10
    ELSE 0

cci_impact(latest) ==
    IF gt(latest.CCI, 100) THEN -10
    ELSE IF lt(latest.CCI, -100) THEN 10
    ELSE 0

williams_impact(latest) ==
    IF gt(latest.Williams_R, -20) THEN -10
    ELSE IF lt(latest.Williams_R, -80) THEN 10
    ELSE 0

analyze_momentum(latest, previous) ==
    clamp_score(neutral_score + rsi_impact(latest) + kdj_cross_impact(latest, previous)
                + kdj_j_impact(latest) + cci_impact(latest) + williams_impact(latest))

\* ---- _analyze_volume ----
volume_change_impact(latest, previous) ==
    IF gt(latest.Volume_Change, 50)
    THEN IF gt(latest.Close, previous.Close) THEN 20 ELSE -15
    ELSE IF gt(latest.Volume_Change, 20) THEN 10
    ELSE IF lt(latest.Volume_Change, -30) THEN -10
    ELSE 0

\* an OBV below its average taken off as much as one above it adds
obv_impact_unbalanced(latest) ==
    IF gt(latest.OBV, mul(latest.Volume_MA20, latest.Close)) THEN 15 ELSE -15

\* obv_ma = latest['Volume_MA20'] * latest['Close']
obv_impact(latest) ==
    IF gt(latest.OBV, mul(latest.Volume_MA20, latest.Close)) THEN 15 ELSE -10

\* Volume > Volume_MA5 * 1.5 and Volume < Volume_MA5 * 0.7
volume_vs_average_impact(latest) ==
    IF gt(mul(latest.Volume, 2), mul(latest.Volume_MA5, 3)) THEN 10
    ELSE IF lt(mul(latest.Volume, 10), mul(latest.Volume_MA5, 7)) THEN -5
    ELSE 0

analyze_volume(latest, previous) ==
    clamp_score(neutral_score + volume_change_impact(latest, previous) + obv_impact(latest)
                + volume_vs_average_impact(latest))

\* ---- _analyze_volatility ----
\* atr_pct = (atr / Close) * 100, compared with 3 and with 1.5; a price is
\* positive or missing
atr_impact(latest) ==
    IF gt(mul(latest.ATR, 100), mul(latest.Close, 3)) THEN -15
    ELSE IF lt(mul(latest.ATR, 200), mul(latest.Close, 3)) THEN 10
    ELSE 0

\* _calculate_bb_position, in fifths: "high" above 0.8, "low" below 0.2.  A
\* missing position is clamped to 1 by max(0, min(1, nan))
calculate_bb_position(latest) ==
    LET bb_range == sub(latest.BB_Upper, latest.BB_Lower)
        above_lower == sub(latest.Close, latest.BB_Lower)
    IN  IF bb_range = 0 THEN "middle"
        ELSE IF bb_range = NaN \/ above_lower = NaN THEN "high"
        ELSE IF 5 * above_lower > 4 * bb_range THEN "high"
        ELSE IF 5 * above_lower < bb_range THEN "low"
        ELSE "middle"

bb_position_impact(latest) ==
    IF calculate_bb_position(latest) = "high" THEN -15
    ELSE IF calculate_bb_position(latest) = "low" THEN 15
    ELSE 0

\* bb_width_pct = (BB_Width / Close) * 100 with BB_Width the quotient
\* (BB_Upper - BB_Lower) / BB_Middle of the indicator engine, compared with 2
\* and with 6
bb_width_impact(latest) ==
    LET width == mul(sub(latest.BB_Upper, latest.BB_Lower), 100)
        unit == mul(latest.BB_Middle, latest.Close)
    IN  IF lt(width, mul(unit, 2)) THEN 5
        ELSE IF gt(width, mul(unit, 6)) THEN -5
        ELSE 0

analyze_volatility(latest) ==
    clamp_score(neutral_score + atr_impact(latest) + bb_position_impact(latest)
                + bb_width_impact(latest))

\* ---- _analyze_ai_prediction ----
\* the bands closed at 5 and 2 percent
change_impact_inclusive(predicted_price, current_price) ==
    LET change == (predicted_price - current_price) * 100
    IN  IF change >= 5 * current_price THEN 30
        ELSE IF change >= 2 * current_price THEN 20
        ELSE IF change <= -5 * current_price THEN -30
        ELSE IF change <= -2 * current_price THEN -20
        ELSE 0

\* change_pct = (predicted_price - current_price) / current_price * 100
change_impact(predicted_price, current_price) ==
    LET change == (predicted_price - current_price) * 100
    IN  IF change > 5 * current_price THEN 30
        ELSE IF change > 2 * current_price THEN 20
        ELSE IF change < -5 * current_price THEN -30
        ELSE IF change < -2 * current_price THEN -20
        ELSE 0

\* no prediction data: the neutral score, returned without the clamp
analyze_ai_prediction(prediction_data) ==
    IF ~prediction_data.given THEN neutral_score
    ELSE IF prediction_data.predictions > 0 /\ prediction_data.current_price > 0
    THEN clamp_score(neutral_score + change_impact(prediction_data.predicted_price,
                                                   prediction_data.current_price))
    ELSE clamp_score(neutral_score)

\* ---- the composite score and the signal ----
\* total_score, in hundredths
total_score(trend, momentum, volume, volatility, ai_prediction) ==
    trend * signal_weights.trend + momentum * signal_weights.momentum
    + volume * signal_weights.volume + volatility * signal_weights.volatility
    + ai_prediction * signal_weights.ai_prediction

strong_buy_threshold == 75
buy_threshold == 60
hold_threshold == 40
sell_threshold == 25

\* the thresholds taken as exclusive lower bounds
determine_signal_type_exclusive(score) ==
    IF score > strong_buy_threshold * 100 THEN "strong_buy"
    ELSE IF score > buy_threshold * 100 THEN "buy"
    ELSE IF score > hold_threshold * 100 THEN "hold"
    ELSE IF score > sell_threshold * 100 THEN "sell"
    ELSE "strong_sell"

\* _determine_signal_type; score in hundredths
determine_signal_type(score) ==
    IF score >= strong_buy_threshold * 100 THEN "strong_buy"
    ELSE IF score >= buy_threshold * 100 THEN "buy"
    ELSE IF score >= hold_threshold * 100 THEN "hold"
    ELSE IF score >= sell_threshold * 100 THEN "sell"
    ELSE "strong_sell"

\* _empty_signal: 'hold' at score 50, no category scores
empty_signal == [NoAnalysis EXCEPT !.score = neutral_score * 100, !.signal = "hold"]

(***************************************************************************)
(* analyze_signal, one step per analysis.  The cells of the two rows each  *)
(* analysis reads are drawn at its step; the latest Close, read by three   *)
(* of them, is drawn with the table.                                       *)
(***************************************************************************)
min_signal_rows == 2
\* the longest table analysed: only its two last rows are read
MaxSignalRows == min_signal_rows

PredictedPrices == {94, 95, 97, 98, 100, 102, 103, 105, 106}
\* none; one without predictions; one without a current price; one with both
PredictionData ==
    {[given |-> FALSE, predictions |-> 0, current_price |-> 0, predicted_price |-> 0],
     [given |-> TRUE, predictions |-> 0, current_price |-> 100, predicted_price |-> 0],
     [given |-> TRUE, predictions |-> 1, current_price |-> 0, predicted_price |-> 100]}
    \cup [given : {TRUE}, predictions : {1}, current_price : {100},
          predicted_price : PredictedPrices]

InitSignal ==
    /\ pc = "analyze"
    /\ req = [endpoint |-> "signal"]
    /\ \E rows \in 0..MaxSignalRows, close \in {100, NaN} :
          analysis = [NoAnalysis EXCEPT !.rows = rows,
                                        !.Close = IF rows = 0 THEN NaN ELSE close]
    /\ KERAS_AVAILABLE = FALSE
    /\ predictor = NewPredictor("none")
    /\ train_log = NoTrain
    /\ split = NoSplit
    /\ result = NoResult
    /\ NoComparison

\* if df.empty or len(df) < 2: return self._empty_signal()
EmptySignal ==
    /\ pc = "analyze"
    /\ analysis.rows < min_signal_rows
    /\ analysis' = [empty_signal EXCEPT !.rows = analysis.rows, !.Close = analysis.Close]
    /\ pc' = "done"
    /\ UNCHANGED <<KERAS_AVAILABLE, req, predictor, train_log, split, result>>
    /\ UNCHANGED compare_vars

AnalyzeTrend ==
    /\ pc = "analyze"
    /\ analysis.rows >= min_signal_rows
    /\ \E macd \in {-2, -1, 0, 1, 2, NaN}, macd_signal \in {0, 1},
          previous_macd \in {-2, -1, 0, 1, 2, NaN}, previous_signal \in {0, 1},
          adx \in {25, 26, NaN}, dmi_plus \in {10, 20, NaN},
          \* MA5, MA10, MA20, MA60
          ma \in {<<4, 3, 2, 1>>, <<1, 2, 3, 4>>, <<2, 2, 2, 2>>, <<101, 100, 100, 99>>,
                  <<4, 3, NaN, 1>>} :
          LET latest == [Close |-> analysis.Close, MACD |-> macd, MACD_Signal |-> macd_signal,
                         MACD_Hist |-> sub(macd, macd_signal), ADX |-> adx,
                         DMI_Plus |-> dmi_plus, DMI_Minus |-> 15,
                         MA5 |-> ma[1], MA10 |-> ma[2], MA20 |-> ma[3], MA60 |-> ma[4]]
              previous == [MACD |-> previous_macd, MACD_Signal |-> previous_signal,
                           MACD_Hist |-> sub(previous_macd, previous_signal)]
          IN  analysis' = [analysis EXCEPT !.trend = analyze_trend(latest, previous)]
    /\ pc' = "momentum"
    /\ UNCHANGED <<KERAS_AVAILABLE, req, predictor, train_log, split, result>>
    /\ UNCHANGED compare_vars

AnalyzeMomentum ==
    /\ pc = "momentum"
    /\ \E rsi \in {29, 30, 39, 40, 60, 61, 70, 71, NaN},
          k \in {10, 50, 90, NaN}, dd \in {10, 50, 90},
          previous_k \in {10, 50, 90}, previous_d \in {50},
          cci \in {-101, -100, 100, 101, NaN}, williams_r \in {-81, -80, -20, -19, NaN} :
          LET latest == [RSI |-> rsi, KDJ_K |-> k, KDJ_D |-> dd,
                         KDJ_J |-> sub(mul(k, 3), mul(dd, 2)),
                         CCI |-> cci, Williams_R |-> williams_r]
              previous == [KDJ_K |-> previous_k, KDJ_D |-> previous_d]
          IN  analysis' = [analysis EXCEPT !.momentum = analyze_momentum(latest, previous)]
    /\ pc' = "volume"
    /\ UNCHANGED <<KERAS_AVAILABLE, req, predictor, train_log, split, result>>
    /\ UNCHANGED compare_vars

AnalyzeVolume ==
    /\ pc = "volume"
    /\ \E volume_change \in {-31, -30, 20, 21, 50, 51, NaN}, previous_close \in {100, NaN} \ {NaN},
          obv \in {10, 1001, NaN}, volume \in {6, 7, 15, 16, NaN} :
          LET latest == [Close |-> analysis.Close, Volume_Change |-> volume_change,
                         OBV |-> obv, Volume |-> volume, Volume_MA5 |-> 10,
                         Volume_MA20 |-> 10]
              previous == [Close |-> previous_close]
          IN  analysis' = [analysis EXCEPT !.volume = analyze_volume(latest, previous)]
    /\ pc' = "volatility"
    /\ UNCHANGED <<KERAS_AVAILABLE, req, predictor, train_log, split, result>>
    /\ UNCHANGED compare_vars

AnalyzeVolatility ==
    /\ pc = "volatility"
    /\ \E atr \in {1, 2, 3, 4, NaN}, bb_middle \in {1, 98, 100, 104, NaN}, bb_std \in {0, 1, 2} :
          LET latest == [Close |-> analysis.Close, ATR |-> atr, BB_Middle |-> bb_middle,
                         BB_Upper |-> add(bb_middle, bb_std * 2),
                         BB_Lower |-> sub(bb_middle, bb_std * 2)]
          IN  analysis' = [analysis EXCEPT !.volatility = analyze_volatility(latest)]
    /\ pc' = "ai"
    /\ UNCHANGED <<KERAS_AVAILABLE, req, predictor, train_log, split, result>>
    /\ UNCHANGED compare_vars

\* the last analysis, the composite score and the signal of the report
AnalyzeAiPrediction ==
    /\ pc = "ai"
    /\ \E prediction_data \in PredictionData :
          LET ai_score == analyze_ai_prediction(prediction_data)
              score == total_score(analysis.trend, analysis.momentum, analysis.volume,
                                   analysis.volatility, ai_score)
          IN  analysis' = [analysis EXCEPT !.ai_prediction = ai_score, !.score = score,
                                           !.signal = determine_signal_type(score)]
    /\ pc' = "done"
    /\ UNCHANGED <<KERAS_AVAILABLE, req, predictor, train_log, split, result>>
    /\ UNCHANGED compare_vars

NextSignal ==
    \/ EmptySignal
    \/ AnalyzeTrend
    \/ AnalyzeMomentum
    \/ AnalyzeVolume
    \/ AnalyzeVolatility
    \/ AnalyzeAiPrediction

SpecSignal == InitSignal /\ [][NextSignal]_vars

(***************************************************************************)
(* _determine_signal_type on its own: every composite score of 0.00..100.00 *)
(***************************************************************************)

InitClassify ==
    /\ pc = "classify"
    /\ req = [endpoint |-> "signal_type"]
    /\ \E score \in ((min_score * 100)..(max_score * 100)) :
          analysis = [NoAnalysis EXCEPT !.rows = min_signal_rows, !.score = score]
    /\ KERAS_AVAILABLE = FALSE
    /\ predictor = NewPredictor("none")
    /\ train_log = NoTrain
    /\ split = NoSplit
    /\ result = NoResult
    /\ NoComparison

DetermineSignalType ==
    /\ pc = "classify"
    /\ analysis' = [analysis EXCEPT !.signal = determine_signal_type(analysis.score)]
    /\ pc' = "done"
    /\ UNCHANGED <<KERAS_AVAILABLE, req, predictor, train_log, split, result>>
    /\ UNCHANGED compare_vars

NextClassify == DetermineSignalType

SpecClassify == InitClassify /\ [][NextClassify]_vars

(***************************************************************************)
(* Key levels of the report: _calculate_stop_loss, _calculate_take_profit  *)
(* and _calculate_risk_reward.  Prices and the ATR are whole numbers; a    *)
(* level is kept doubled (1.5 ATR is 3 half ATRs), the ratio in hundredths. *)
(***************************************************************************)
abs(x) == IF x = NaN THEN NaN ELSE IF x < 0 THEN -x ELSE x

\* round(x / y, 2) of non-negative x and positive y, in hundredths (halves to even)
round2(x, y) ==
    LET q == (100 * x) \div y
        r == (100 * x) % y
    IN  IF 2 * r > y \/ (2 * r = y /\ q % 2 = 1) THEN q + 1 ELSE q

\* twice the stop loss
calculate_stop_loss(latest, signal) ==
    IF signal \in {"strong_buy", "buy"} THEN sub(mul(latest.Close, 2), mul(latest.ATR, 3))
    ELSE IF signal \in {"strong_sell", "sell"}
    THEN add(mul(latest.Close, 2), mul(latest.ATR, 3))
    ELSE sub(mul(latest.Close, 2), mul(latest.ATR, 2))

\* (mutation) a hold target of 3 ATR, as on the buy side
calculate_take_profit_wide_hold(latest, signal) ==
    IF signal \in {"strong_sell", "sell"}
    THEN sub(mul(latest.Close, 2), mul(latest.ATR, 6))
    ELSE add(mul(latest.Close, 2), mul(latest.ATR, 6))

\* twice the take profit
calculate_take_profit(latest, signal) ==
    IF signal \in {"strong_buy", "buy"} THEN add(mul(latest.Close, 2), mul(latest.ATR, 6))
    ELSE IF signal \in {"strong_sell", "sell"}
    THEN sub(mul(latest.Close, 2), mul(latest.ATR, 6))
    ELSE add(mul(latest.Close, 2), mul(latest.ATR, 4))

\* the quotient formed without the risk == 0 guard: 0 / 0 of floats is NaN
calculate_risk_reward_unguarded(latest, signal) ==
    LET risk == abs(sub(mul(latest.Close, 2), calculate_stop_loss(latest, signal)))
        reward == abs(sub(calculate_take_profit(latest, signal), mul(latest.Close, 2)))
    IN  [ratio |-> IF risk = NaN \/ reward = NaN \/ risk = 0 THEN NaN ELSE round2(reward, risk),
         risk |-> risk, divides |-> TRUE]

\* ratio: the value returned, in hundredths; divides: whether reward / risk
\* was formed
calculate_risk_reward(latest, signal) ==
    LET risk == abs(sub(mul(latest.Close, 2), calculate_stop_loss(latest, signal)))
        reward == abs(sub(calculate_take_profit(latest, signal), mul(latest.Close, 2)))
    IN  IF risk = 0 THEN [ratio |-> 0, risk |-> risk, divides |-> FALSE]
        ELSE [ratio |-> IF risk = NaN \/ reward = NaN THEN NaN ELSE round2(reward, risk),
              risk |-> risk, divides |-> TRUE]

\* the largest ATR of a latest row
MaxATR == 6

\* the 'key_levels' and 'risk_reward_ratio' entries of the report
CalculateKeyLevels ==
    /\ pc = "key_levels"
    /\ analysis' = [analysis EXCEPT
                       !.stop_loss = calculate_stop_loss(analysis.latest, analysis.signal),
                       !.take_profit = calculate_take_profit(analysis.latest, analysis.signal),
                       !.risk_reward = calculate_risk_reward(analysis.latest, analysis.signal)]
    /\ pc' = "done"
    /\ UNCHANGED <<KERAS_AVAILABLE, req, predictor, train_log, split, result>>
    /\ UNCHANGED compare_vars

(***************************************************************************)
(* analyze_signal as a whole: the Signal Report of a table                 *)
(***************************************************************************)
confidence_floor_signal == 30
confidence_cap_signal == 100

\* _calculate_confidence and the report's round(confidence, 2), in hundredths:
\* 1 - std / 50 held within [0.3, 1.0].  With T the sum of the squares of
\* 5 s - (sum of the five scores), std / 50 in hundredths is sqrt(16 T / 125) / 2
signal_confidence(scores) ==
    LET total == scores.trend + scores.momentum + scores.volume + scores.volatility
                 + scores.ai_prediction
        sq(x) == (5 * x - total) * (5 * x - total)
        T == sq(scores.trend) + sq(scores.momentum) + sq(scores.volume)
             + sq(scores.volatility) + sq(scores.ai_prediction)
        spread == CHOOSE k \in 0..100 :
                      /\ (2 * k - 1) * (2 * k - 1) * 125 <= 16 * T \/ k = 0
                      /\ 16 * T < (2 * k + 1) * (2 * k + 1) * 125 \/ k = 100
    IN  Max(confidence_floor_signal, Min(confidence_cap_signal, 100 - spread))

\* a sentinel that keeps the neutral category scores
empty_report_scored ==
    [signal |-> "hold", score |-> neutral_score * 100, confidence |-> 0,
     category_scores |-> [k \in {"trend", "momentum", "volume", "volatility",
                                 "ai_prediction"} |-> neutral_score * 100],
     detailed_signals |-> {}, key_levels |-> [k \in {} |-> 0],
     risk_reward_ratio |-> 0, raised |-> FALSE]

\* _empty_signal; a dict is a mapping from its keys, the empty dict has none,
\* and detailed_signals is kept as its set of keys
empty_report ==
    [signal |-> "hold", score |-> neutral_score * 100, confidence |-> 0,
     category_scores |-> [k \in {} |-> 0],
     detailed_signals |-> {}, key_levels |-> [k \in {} |-> 0],
     risk_reward_ratio |-> 0, raised |-> FALSE]

\* analyze_signal on a table of `rows` rows whose last two rows are `previous`
\* and `latest`; scores in hundredths as round(x, 2) gives them
analyze_signal(rows, latest, previous, prediction_data) ==
    IF rows = 0 \/ rows < min_signal_rows THEN empty_report
    ELSE LET scores == [trend |-> analyze_trend(latest, previous),
                        momentum |-> analyze_momentum(latest, previous),
                        volume |-> analyze_volume(latest, previous),
                        volatility |-> analyze_volatility(latest),
                        ai_prediction |-> analyze_ai_prediction(prediction_data)]
             score == total_score(scores.trend, scores.momentum, scores.volume,
                                  scores.volatility, scores.ai_prediction)
             signal_type == determine_signal_type(score)
             levels == [current_price |-> latest.Close,
                        stop_loss |-> calculate_stop_loss(latest, signal_type),
                        take_profit |-> calculate_take_profit(latest, signal_type)]
         IN  [signal |-> signal_type, score |-> score,
              confidence |-> signal_confidence(scores),
              category_scores |-> [k \in DOMAIN scores |-> scores[k] * 100],
              detailed_signals |-> {"trend", "momentum", "volume", "volatility", "ai"},
              key_levels |-> levels,
              risk_reward_ratio |-> calculate_risk_reward(latest, signal_type).ratio,
              raised |-> FALSE]

\* a row as the Indicator Engine lays it out: the histogram, J, the bands and
\* the band width follow from the cells they are computed from
IndicatorRow(c) ==
    [Close |-> c.close, MACD |-> c.macd, MACD_Signal |-> c.macd_signal,
     MACD_Hist |-> sub(c.macd, c.macd_signal), ADX |-> c.adx,
     DMI_Plus |-> c.dmi[1], DMI_Minus |-> c.dmi[2],
     MA5 |-> c.ma[1], MA10 |-> c.ma[2], MA20 |-> c.ma[3], MA60 |-> c.ma[4],
     RSI |-> c.rsi, KDJ_K |-> c.k, KDJ_D |-> c.d,
     KDJ_J |-> sub(mul(c.k, 3), mul(c.d, 2)),
     CCI |-> c.cci, Williams_R |-> c.williams_r,
     \* df['Volume'].pct_change(): a fraction of the volume of the day before
     Volume_Change |-> IF c.volume = NaN \/ c.previous_volume = NaN THEN NaN
                       ELSE (c.volume - c.previous_volume) \div c.previous_volume,
     OBV |-> c.obv, Volume |-> c.volume,
     Volume_MA5 |-> c.volume_ma[1], Volume_MA20 |-> c.volume_ma[2],
     ATR |-> c.atr, BB_Middle |-> c.bb_middle,
     BB_Upper |-> add(c.bb_middle, mul(c.bb_std, 2)),
     BB_Lower |-> sub(c.bb_middle, mul(c.bb_std, 2))]

\* the longest table handed to the analyzer
MaxReportRows == 3

AnalyzeSignal ==
    /\ pc = "report"
    /\ analysis' = analyze_signal(req.rows, req.latest, req.previous, req.prediction_data)
    /\ pc' = "done"
    /\ UNCHANGED <<KERAS_AVAILABLE, req, predictor, train_log, split, result>>
    /\ UNCHANGED compare_vars

(***************************************************************************)
(* The Indicator Engine: the columns of _calculate_technical_indicators,   *)
(* row by row, and the analyzer on its last two rows.                      *)
(*                                                                         *)
(* A column is a function from the row numbers 1..n to cells.  Cells are   *)
(* whole numbers in the unit the analyzer compares them in; the series     *)
(* drawn are flat, on which every mean and quotient below is exact.        *)
(***************************************************************************)

\* the sum of the rows from..to of a column, taken in halves
RECURSIVE window_sum(_, _, _)
window_sum(column, from, to) ==
    IF from > to THEN 0
    ELSE IF from = to THEN column[from]
    ELSE LET mid == (from + to) \div 2
         IN  window_sum(column, from, mid) + window_sum(column, mid + 1, to)

\* Series.rolling(window).sum(): missing until the window is full and while
\* it holds a missing cell
rolling_sum(column, window, i) ==
    IF i < window \/ \E j \in (i - window + 1)..i : column[j] = NaN THEN NaN
    ELSE window_sum(column, i - window + 1, i)

rolling_mean(column, window, i) ==
    LET total == rolling_sum(column, window, i)
    IN  IF total = NaN THEN NaN ELSE total \div window

rolling_min(column, window, i) ==
    IF i < window \/ \E j \in (i - window + 1)..i : column[j] = NaN THEN NaN
    ELSE CHOOSE x \in {column[j] : j \in (i - window + 1)..i} :
             \A j \in (i - window + 1)..i : x <= column[j]

rolling_max(column, window, i) ==
    IF i < window \/ \E j \in (i - window + 1)..i : column[j] = NaN THEN NaN
    ELSE CHOOSE x \in {column[j] : j \in (i - window + 1)..i} :
             \A j \in (i - window + 1)..i : x >= column[j]

\* Series.rolling(window).std(), the sample deviation
rolling_std(column, window, i) ==
    LET total == rolling_sum(column, window, i)
        squares == rolling_sum([j \in DOMAIN column |-> mul(column[j], column[j])],
                               window, i)
        variance == (window * squares - total * total) \div (window * (window - 1))
    IN  IF total = NaN THEN NaN
        ELSE CHOOSE k \in 0..variance : k * k <= variance /\ variance < (k + 1) * (k + 1)

\* the quotient by 1e-10 alone: beyond every threshold it is compared with
eps_inverse == 100000

\* x / (y + 1e-10)
div_eps(x, y) ==
    IF x = NaN \/ y = NaN THEN NaN
    ELSE IF x = 0 THEN 0
    ELSE IF y = 0 THEN x * eps_inverse
    ELSE x \div y

\* one step of ewm(adjust=False).mean() with alpha = num / den: the average
\* starts at the first value and is kept as it is by a value equal to it
ewm_step(average, value, num, den) ==
    IF value = NaN THEN average
    ELSE IF average = NaN THEN value
    ELSE IF average = value THEN average
    ELSE ((den - num) * average + num * value) \div den

rsi_window == 14
macd_fast_span == 12
macd_slow_span == 26
macd_signal_span == 9
kdj_window == 9
kdj_com == 2
atr_window == 14
cci_window == 20
bb_window == 20
adx_window == 14

\* df['RSI'] at row i, in whole points.  delta is Close.diff(), gain and loss
\* the rolling means of delta.where(delta > 0, 0) and -delta.where(delta < 0, 0);
\* the two means share the window, so rs = gain / loss is the quotient of the
\* window sums.  In float division 0 / 0 is NaN and x / 0 is inf, which
\* 100 - 100 / (1 + rs) takes to 100
RSI(close, i) ==
    LET delta == [j \in DOMAIN close |-> IF j = 1 THEN NaN ELSE sub(close[j], close[j - 1])]
        gain == rolling_sum([j \in DOMAIN delta |-> IF gt(delta[j], 0) THEN delta[j] ELSE 0],
                            rsi_window, i)
        loss == rolling_sum([j \in DOMAIN delta |-> IF lt(delta[j], 0) THEN 0 - delta[j] ELSE 0],
                            rsi_window, i)
    IN  IF gain = NaN \/ loss = NaN THEN NaN
        ELSE IF loss = 0 THEN (IF gain = 0 THEN NaN ELSE 100)
        ELSE (100 * gain) \div (gain + loss)

\* the running averages (ewm) and the running OBV sum (cumsum) after one
\* more row; `at` holds them after the rows 1..at.i
next_averages(df, at) ==
    LET i == at.i + 1
        low_9 == rolling_min(df.Low, kdj_window, i)
        high_9 == rolling_max(df.High, kdj_window, i)
        rsv == div_eps(mul(sub(df.Close[i], low_9), 100), sub(high_9, low_9))
        exp1 == ewm_step(at.exp1, df.Close[i], 2, macd_fast_span + 1)
        exp2 == ewm_step(at.exp2, df.Close[i], 2, macd_slow_span + 1)
        k == ewm_step(at.KDJ_K, rsv, 1, kdj_com + 1)
        rise == IF i = 1 THEN 0 ELSE df.Close[i] - df.Close[i - 1]
        flow == IF rise > 0 THEN df.Volume[i] ELSE IF rise < 0 THEN 0 - df.Volume[i] ELSE 0
    IN  [i |-> i, exp1 |-> exp1, exp2 |-> exp2,
         MACD_Signal |-> ewm_step(at.MACD_Signal, sub(exp1, exp2), 2, macd_signal_span + 1),
         KDJ_K |-> k,
         KDJ_D |-> ewm_step(at.KDJ_D, k, 1, kdj_com + 1),
         OBV |-> at.OBV + flow]

\* row at.i of the table the engine returns, `at` being the averages after it
indicator_row(df, at) ==
    LET i == at.i
        \* true_range: the largest of the three ranges that exist
        true_range(j) ==
            IF j = 1 THEN df.High[j] - df.Low[j]
            ELSE Max(df.High[j] - df.Low[j], Max(abs(df.High[j] - df.Close[j - 1]),
                                                abs(df.Low[j] - df.Close[j - 1])))
        ATR(n) == rolling_mean([j \in 1..n |-> true_range(j)], atr_window, n)
        \* plus_dm and minus_dm: the rises of High and the falls of Low
        plus_dm(j) == IF j = 1 THEN NaN ELSE Max(df.High[j] - df.High[j - 1], 0)
        minus_dm(j) == IF j = 1 THEN NaN ELSE Max(df.Low[j - 1] - df.Low[j], 0)
        DMI_Plus(n) ==
            mul(100, div_eps(rolling_mean([j \in 1..n |-> plus_dm(j)], adx_window, n), ATR(n)))
        DMI_Minus(n) ==
            mul(100, div_eps(rolling_mean([j \in 1..n |-> minus_dm(j)], adx_window, n), ATR(n)))
        \* ADX before its rolling mean
        DX(n) == div_eps(mul(100, abs(sub(DMI_Plus(n), DMI_Minus(n)))),
                         add(DMI_Plus(n), DMI_Minus(n)))
        \* (tp - sma_tp) / (0.015 * mad + 1e-10)
        tp == [j \in 1..i |-> (df.High[j] + df.Low[j] + df.Close[j]) \div 3]
        sma_tp == rolling_mean(tp, cci_window, i)
        mad == rolling_mean([j \in 1..i |-> abs(sub(tp[j], sma_tp))], cci_window, i)
        low_9 == rolling_min(df.Low, kdj_window, i)
        high_9 == rolling_max(df.High, kdj_window, i)
    IN  IndicatorRow(
            [close |-> df.Close[i],
             macd |-> sub(at.exp1, at.exp2), macd_signal |-> at.MACD_Signal,
             adx |-> rolling_mean([j \in 1..i |-> IF j > i - adx_window THEN DX(j) ELSE 0],
                                  adx_window, i),
             dmi |-> <<DMI_Plus(i), DMI_Minus(i)>>,
             ma |-> <<rolling_mean(df.Close, 5, i), rolling_mean(df.Close, 10, i),
                      rolling_mean(df.Close, 20, i), rolling_mean(df.Close, 60, i)>>,
             rsi |-> RSI(df.Close, i),
             k |-> at.KDJ_K, d |-> at.KDJ_D,
             cci |-> div_eps(mul(sub(tp[i], sma_tp), 200), mul(mad, 3)),
             williams_r |-> div_eps(mul(sub(high_9, df.Close[i]), -100), sub(high_9, low_9)),
             previous_volume |-> IF i = 1 THEN NaN ELSE df.Volume[i - 1],
             obv |-> at.OBV, volume |-> df.Volume[i],
             volume_ma |-> <<rolling_mean(df.Volume, 5, i), rolling_mean(df.Volume, 20, i)>>,
             atr |-> ATR(i),
             bb_middle |-> rolling_mean(df.Close, bb_window, i),
             bb_std |-> rolling_std(df.Close, bb_window, i)])

\* the flat series: the same price in every price column of every row
MaxFlatRows == 100
MaxFlatPrice == 3
MaxFlatVolume == 2

\* the engine's columns, one more row of each
IndicatorStep ==
    /\ pc = "engine"
    /\ analysis.at.i < Len(req.df.Close)
    /\ \E at \in {next_averages(req.df, analysis.at)} :
           analysis' = [analysis EXCEPT !.at = at, !.previous = analysis.latest,
                                        !.latest = indicator_row(req.df, at)]
    /\ UNCHANGED <<KERAS_AVAILABLE, pc, req, predictor, train_log, split, result>>
    /\ UNCHANGED compare_vars

\* analyze_signal(df) on the engine's table, without a forecast
AnalyzeFlat ==
    /\ pc = "engine"
    /\ analysis.at.i = Len(req.df.Close)
    /\ analysis' = [analysis EXCEPT !.report =
                        analyze_signal(analysis.at.i, analysis.latest, analysis.previous,
                                       [given |-> FALSE, predictions |-> 0,
                                        current_price |-> 0, predicted_price |-> 0])]
    /\ pc' = "done"
    /\ UNCHANGED <<KERAS_AVAILABLE, req, predictor, train_log, split, result>>
    /\ UNCHANGED compare_vars

(***************************************************************************)
(* The rolling buffer of predict_next_days (linear and random forest)      *)
(***************************************************************************)

\* self.last_df.tail(100)
buffer_tail == 100

\* a synthetic row without the volume of the row before it
synthetic_row_stale_volume(predict_date, predicted_price, last_row) ==
    [date |-> predict_date, Close |-> predicted_price, Open |-> predicted_price,
     High |-> (predicted_price * 101) \div 100, Low |-> (predicted_price * 99) \div 100,
     Volume |-> 0, synthetic |-> TRUE]

\* prices in hundredths, so that 1.01 and 0.99 of a price are whole
synthetic_row(predict_date, predicted_price, last_row) ==
    [date |-> predict_date, Close |-> predicted_price, Open |-> predicted_price,
     High |-> (predicted_price * 101) \div 100, Low |-> (predicted_price * 99) \div 100,
     Volume |-> last_row.Volume, synthetic |-> TRUE]

\* the longest horizon and the longest table of the buffer runs
MaxSteps == 3
MaxTableRows == 101

\* one pass of the loop body: the indicators of the whole buffer, the features
\* of its last row, the prediction, the point and the synthetic row.
\* indicators: the number of rows the indicator columns were computed over
\* when the features were read; features_of: the dates the features were
\* read from, step by step
PredictStep ==
    /\ pc = "loop"
    /\ analysis.i < req.days
    /\ \E predicted_price \in {9000, 11000} :
           LET i == analysis.i + 1
               recent_data == analysis.recent_data
               last_row == recent_data[Len(recent_data)]
               predict_date == last_row.date + 1
           IN  analysis' =
                   [analysis EXCEPT
                       !.i = i,
                       !.indicators = Len(recent_data),
                       !.features_of = Append(@, last_row.date),
                       !.predictions = Append(@, [date |-> predict_date,
                                                  predicted_price |-> predicted_price,
                                                  confidence |-> ForecastPoint(predict_date, req.model_type, i).confidence]),
                       !.appended = Append(@, synthetic_row(predict_date, predicted_price, last_row)),
                       !.recent_data = Append(recent_data,
                                              synthetic_row(predict_date, predicted_price, last_row))]
    /\ UNCHANGED <<KERAS_AVAILABLE, pc, req, predictor, train_log, split, result>>
    /\ UNCHANGED compare_vars

\* what predict_stock_price makes of the list predict_next_days returned
\* (`if not predictions`): the failure record, or the record with the points
report_predictions(predictions) ==
    IF Len(predictions) = 0 THEN Failure(MSG_PREDICTION_FAILED)
    ELSE [success |-> TRUE, raised |-> FALSE, message |-> "", predictions |-> predictions,
          last_update |-> 0]

\* (mutation) an except branch that returns the points made so far
PredictStepRaises_partial ==
    /\ pc = "loop"
    /\ analysis.i < req.days
    /\ analysis' = [analysis EXCEPT !.returned = TRUE,
                                    !.report = report_predictions(analysis.predictions)]
    /\ pc' = "done"
    /\ UNCHANGED <<KERAS_AVAILABLE, req, predictor, train_log, split, result>>
    /\ UNCHANGED compare_vars

\* a step that raises (the indicators, the scaler of an unfitted predictor,
\* the model): the except branch returns the empty list, whatever the list
\* held, and predict_stock_price reports on it
PredictStepRaises ==
    /\ pc = "loop"
    /\ analysis.i < req.days
    /\ analysis' = [analysis EXCEPT !.predictions = <<>>, !.returned = TRUE,
                                    !.report = report_predictions(<<>>)]
    /\ pc' = "done"
    /\ UNCHANGED <<KERAS_AVAILABLE, req, predictor, train_log, split, result>>
    /\ UNCHANGED compare_vars

\* return predictions
ReturnPredictions ==
    /\ pc = "loop"
    /\ analysis.i = req.days
    /\ analysis' = [analysis EXCEPT !.returned = TRUE,
                                    !.report = report_predictions(analysis.predictions)]
    /\ pc' = "done"
    /\ UNCHANGED <<KERAS_AVAILABLE, req, predictor, train_log, split, result>>
    /\ UNCHANGED compare_vars

(***************************************************************************)
(* _find_best_backtest_model                                               *)
(***************************************************************************)

\* a ranking that lets the failed models in
successful_results_unfiltered(outcomes) == outcomes

\* the dict comprehension that keeps the successful results, in dict order
successful_results(outcomes) == SelectSeq(outcomes, LAMBDA r : r.success)

\* max(items, key) names the first item, in dict order, that no item exceeds,
\* and min(items, key) the first that exceeds no item.  The overall score is
\* kept in tenths: direction * 0.4 + mape_score * 0.3 + winrate * 0.3 with
\* mape_score = max(0, 100 - mape * 2)
find_best_backtest_model(outcomes) ==
    LET successful == successful_results(outcomes)
        first_max(keys) ==
            successful[CHOOSE i \in 1..Len(successful) :
                           /\ \A j \in 1..Len(successful) : keys[j] <= keys[i]
                           /\ \A j \in 1..(i - 1) : keys[j] < keys[i]].model
        first_min(keys) ==
            successful[CHOOSE i \in 1..Len(successful) :
                           /\ \A j \in 1..Len(successful) : keys[j] >= keys[i]
                           /\ \A j \in 1..(i - 1) : keys[j] > keys[i]].model
        key(name) == [i \in 1..Len(successful) |-> successful[i].metrics[name]]
        overall_score(metrics) ==
            4 * metrics.direction_accuracy + 3 * Max(0, 100 - metrics.mape * 2)
            + 3 * metrics.win_rate
        scores == [i \in 1..Len(successful) |-> overall_score(successful[i].metrics)]
    IN  IF Len(successful) = 0
        THEN [by_direction |-> "None", by_accuracy |-> "None", by_winrate |-> "None",
              by_overall |-> "None"]
        ELSE [by_direction |-> first_max(key("direction_accuracy")),
              by_accuracy |-> first_min(key("mape")),
              by_winrate |-> first_max(key("win_rate")),
              by_overall |-> first_max(scores)]

FindBestBacktestModel ==
    /\ pc = "find_best"
    /\ analysis' = find_best_backtest_model(req.results)
    /\ pc' = "done"
    /\ UNCHANGED <<KERAS_AVAILABLE, req, predictor, train_log, split, result>>
    /\ UNCHANGED compare_vars

(***************************************************************************)
(* LSTMPredictor.train on its own                                          *)
(***************************************************************************)

Train ==
    /\ pc = "train"
    /\ \E outcome \in {LSTMPredictor_train(predictor, req.fetch, KERAS_AVAILABLE)} :
           /\ predictor' = outcome.predictor
           /\ train_log' = TrainLog(req.fetch, outcome)
    /\ pc' = "done"
    /\ UNCHANGED signal_vars
    /\ UNCHANGED <<KERAS_AVAILABLE, req, split, result>>
    /\ UNCHANGED compare_vars

(***************************************************************************)
(* The extended history period of _run_backtest                            *)
(***************************************************************************)
\* period_map.get(training_period, '2y')
extended_period(training_period) ==
    LET period_map == [label \in {"3mo", "6mo", "1y", "2y", "5y"} |->
                          CASE label = "3mo" -> "6mo"
                            [] label = "6mo" -> "1y"
                            [] label = "1y" -> "2y"
                            [] label = "2y" -> "3y"
                            [] label = "5y" -> "max"]
    IN  IF training_period \in DOMAIN period_map THEN period_map[training_period]
        ELSE "2y"

\* a listing older than every bounded period
WholeListing == 100000

\* the daily rows a period of history holds: 21 to the month, 252 to the year
period_rows(period) ==
    CASE period = "1mo" -> 21
      [] period = "3mo" -> 63
      [] period = "6mo" -> 126
      [] period = "1y" -> 252
      [] period = "2y" -> 504
      [] period = "3y" -> 756
      [] period = "5y" -> 1260
      [] OTHER -> WholeListing

ExtendPeriod ==
    /\ pc = "period"
    /\ analysis' = [extended_period |-> extended_period(req.training_period)]
    /\ pc' = "done"
    /\ UNCHANGED <<KERAS_AVAILABLE, req, predictor, train_log, split, result>>
    /\ UNCHANGED compare_vars

(***************************************************************************)
(* _analyze_ai_prediction on a forecast of several points                  *)
(***************************************************************************)

\* the longest forecast handed to the analyzer
MaxPoints == 2

\* what the function reads of a forecast: whether there is one, how many
\* points it has, the current price and predictions[0]['predicted_price']
read_prediction_data(forecast) ==
    [given |-> forecast.given, predictions |-> Len(forecast.predictions),
     current_price |-> forecast.current_price,
     predicted_price |-> IF Len(forecast.predictions) > 0 THEN forecast.predictions[1]
                         ELSE 0]

AnalyzeForecast ==
    /\ pc = "ai_prediction"
    /\ analysis' = [ai_prediction |->
                        analyze_ai_prediction(read_prediction_data(req.prediction_data))]
    /\ pc' = "done"
    /\ UNCHANGED <<KERAS_AVAILABLE, req, predictor, train_log, split, result>>
    /\ UNCHANGED compare_vars

(***************************************************************************)
(* _calculate_backtest_metrics on the paired points of _run_backtest       *)
(* Prices are whole numbers; the metrics are kept in hundredths, as        *)
(* round(x, 2) gives them.                                                 *)
(***************************************************************************)
\* the longest forecast and the longest validation slice paired
MaxPairs == 3

\* a win rate that leaves the points at exactly 5 percent out
calculate_backtest_metrics_strict(pairs) ==
    LET k == Len(pairs)
        errors == [i \in 1..k |-> abs(pairs[i].error)]
        rose(column, i) == pairs[i][column] > pairs[i - 1][column]
        correct_direction ==
            Cardinality({i \in 2..k : rose("actual_price", i) = rose("predicted_price", i)})
        within_5_percent ==
            Cardinality({i \in 1..k : 100 * errors[i] < 5 * pairs[i].actual_price})
    IN  IF k = 0 THEN [total_predictions |-> 0, empty |-> TRUE]
        ELSE [empty |-> FALSE,
              mae |-> round2(window_sum(errors, 1, k), k),
              direction_accuracy |-> IF k > 1 THEN round2(100 * correct_direction, k - 1)
                                     ELSE 0,
              win_rate |-> round2(100 * within_5_percent, k),
              total_predictions |-> k]

\* `if not comparison_data: return {}`; else the metrics dict.  A direction is
\* `curr > prev`: a pair counts when both series rose or neither did.
\* error_percentage is (predicted - actual) / actual * 100 of positive prices.
\* Of the dict, the fields that are rational in the prices are kept
calculate_backtest_metrics(pairs) ==
    LET k == Len(pairs)
        errors == [i \in 1..k |-> abs(pairs[i].error)]
        rose(column, i) == pairs[i][column] > pairs[i - 1][column]
        correct_direction ==
            Cardinality({i \in 2..k : rose("actual_price", i) = rose("predicted_price", i)})
        within_5_percent ==
            Cardinality({i \in 1..k : 100 * errors[i] <= 5 * pairs[i].actual_price})
    IN  IF k = 0 THEN [total_predictions |-> 0, empty |-> TRUE]
        ELSE [empty |-> FALSE,
              mae |-> round2(window_sum(errors, 1, k), k),
              direction_accuracy |-> IF k > 1 THEN round2(100 * correct_direction, k - 1)
                                     ELSE 0,
              win_rate |-> round2(100 * within_5_percent, k),
              total_predictions |-> k]

\* lines 223-238 of _run_backtest: one paired point per forecast point of
\* predictions[:actual_days], then the metrics of the paired points
CalculateBacktestMetrics ==
    /\ pc = "metrics"
    /\ LET k == Min(Len(req.predictions), Len(req.actual_prices))
           comparison_data ==
               [i \in 1..k |->
                   [predicted_price |-> req.predictions[i],
                    actual_price |-> req.actual_prices[i],
                    error |-> req.predictions[i] - req.actual_prices[i]]]
       IN  analysis' = [comparison_data |-> comparison_data,
                        metrics |-> calculate_backtest_metrics(comparison_data)]
    /\ pc' = "done"
    /\ UNCHANGED <<KERAS_AVAILABLE, req, predictor, train_log, split, result>>
    /\ UNCHANGED compare_vars

(***************************************************************************)
(* The signal records of the category analyzers: what each analyzer        *)
(* appends to `signals` in the branch that adjusts its score               *)
(***************************************************************************)
\* the 'indicator', 'signal' and 'impact' entries of the records, per
\* category, in the order they are appended
detailed_signals(latest, previous, prediction_data) ==
    LET rec(indicator, signal, impact) ==
            <<[indicator |-> indicator, signal |-> signal, impact |-> impact]>>
        macd == IF gt(latest.MACD, latest.MACD_Signal)
                THEN IF le(previous.MACD, previous.MACD_Signal)
                     THEN rec("MACD", "golden_cross", 25)
                     ELSE rec("MACD", "bullish", 15)
                ELSE IF ge(previous.MACD, previous.MACD_Signal)
                     THEN rec("MACD", "death_cross", -25)
                     ELSE rec("MACD", "bearish", -15)
        macd_hist ==
            IF gt(latest.MACD_Hist, 0) /\ gt(latest.MACD_Hist, previous.MACD_Hist)
            THEN rec("MACD_Histogram", "increasing", 10)
            ELSE IF lt(latest.MACD_Hist, 0) /\ lt(latest.MACD_Hist, previous.MACD_Hist)
            THEN rec("MACD_Histogram", "decreasing", -10)
            ELSE <<>>
        dmi == IF gt(latest.ADX, adx_threshold)
               THEN IF gt(latest.DMI_Plus, latest.DMI_Minus)
                    THEN rec("DMI/ADX", "strong_uptrend", 15)
                    ELSE rec("DMI/ADX", "strong_downtrend", -15)
               ELSE rec("DMI/ADX", "no_trend", 0)
        ma_alignment ==
            IF check_ma_alignment(latest) = "bullish" THEN rec("MA_Alignment", "bullish", 10)
            ELSE IF check_ma_alignment(latest) = "bearish"
            THEN rec("MA_Alignment", "bearish", -10)
            ELSE <<>>
        price_vs_ma60 == IF gt(latest.Close, latest.MA60) THEN rec("Price_vs_MA60", "above", 5)
                         ELSE rec("Price_vs_MA60", "below", -5)
        rsi == IF lt(latest.RSI, 30) THEN rec("RSI", "oversold", 20)
               ELSE IF gt(latest.RSI, 70) THEN rec("RSI", "overbought", -20)
               ELSE IF le(40, latest.RSI) /\ le(latest.RSI, 60) THEN rec("RSI", "neutral", 0)
               ELSE IF gt(latest.RSI, 60) THEN rec("RSI", "strong", 10)
               ELSE rec("RSI", "weak", -10)
        kdj == IF gt(latest.KDJ_K, latest.KDJ_D) /\ le(previous.KDJ_K, previous.KDJ_D)
               THEN rec("KDJ", "golden_cross", 15)
               ELSE IF lt(latest.KDJ_K, latest.KDJ_D) /\ ge(previous.KDJ_K, previous.KDJ_D)
               THEN rec("KDJ", "death_cross", -15)
               ELSE <<>>
        kdj_j == IF lt(latest.KDJ_J, 20) THEN rec("KDJ_J", "oversold", 10)
                 ELSE IF gt(latest.KDJ_J, 80) THEN rec("KDJ_J", "overbought", -10)
                 ELSE <<>>
        cci == IF gt(latest.CCI, 100) THEN rec("CCI", "overbought", -10)
               ELSE IF lt(latest.CCI, -100) THEN rec("CCI", "oversold", 10)
               ELSE <<>>
        williams == IF gt(latest.Williams_R, -20) THEN rec("Williams_R", "overbought", -10)
                    ELSE IF lt(latest.Williams_R, -80) THEN rec("Williams_R", "oversold", 10)
                    ELSE <<>>
        volume_change ==
            IF gt(latest.Volume_Change, 50)
            THEN IF gt(latest.Close, previous.Close) THEN rec("Volume", "surge_bullish", 20)
                 ELSE rec("Volume", "surge_bearish", -15)
            ELSE IF gt(latest.Volume_Change, 20) THEN rec("Volume", "increasing", 10)
            ELSE IF lt(latest.Volume_Change, -30) THEN rec("Volume", "shrinking", -10)
            ELSE <<>>
        obv == IF gt(latest.OBV, mul(latest.Volume_MA20, latest.Close))
               THEN rec("OBV", "bullish", 15)
               ELSE rec("OBV", "bearish", -10)
        volume_vs_ma5 ==
            IF gt(mul(latest.Volume, 2), mul(latest.Volume_MA5, 3))
            THEN rec("Volume_vs_MA5", "above", 10)
            ELSE IF lt(mul(latest.Volume, 10), mul(latest.Volume_MA5, 7))
            THEN rec("Volume_vs_MA5", "below", -5)
            ELSE <<>>
        atr == IF gt(mul(latest.ATR, 100), mul(latest.Close, 3))
               THEN rec("ATR", "high_volatility", -15)
               ELSE IF lt(mul(latest.ATR, 200), mul(latest.Close, 3))
               THEN rec("ATR", "low_volatility", 10)
               ELSE rec("ATR", "normal", 0)
        bollinger ==
            IF calculate_bb_position(latest) = "high"
            THEN rec("Bollinger_Bands", "upper_band", -15)
            ELSE IF calculate_bb_position(latest) = "low"
            THEN rec("Bollinger_Bands", "lower_band", 15)
            ELSE <<>>
        \* bb_width_pct = (latest['BB_Width'] / latest['Close']) * 100
        width == mul(sub(latest.BB_Upper, latest.BB_Lower), 100)
        unit == mul(latest.BB_Middle, latest.Close)
        bb_width == IF lt(width, mul(unit, 2)) THEN rec("BB_Width", "squeeze", 5)
                    ELSE IF gt(width, mul(unit, 6)) THEN rec("BB_Width", "expansion", -5)
                    ELSE <<>>
        change == (prediction_data.predicted_price - prediction_data.current_price) * 100
        ai == IF ~prediction_data.given THEN rec("AI_Prediction", "unavailable", 0)
              ELSE IF prediction_data.predictions > 0 /\ prediction_data.current_price > 0
              THEN IF change > 5 * prediction_data.current_price
                   THEN rec("AI_Prediction", "strong_bullish", 30)
                   ELSE IF change > 2 * prediction_data.current_price
                   THEN rec("AI_Prediction", "bullish", 20)
                   ELSE IF change < -5 * prediction_data.current_price
                   THEN rec("AI_Prediction", "strong_bearish", -30)
                   ELSE IF change < -2 * prediction_data.current_price
                   THEN rec("AI_Prediction", "bearish", -20)
                   ELSE rec("AI_Prediction", "neutral", 0)
              ELSE <<>>
    IN  [trend |-> macd \o macd_hist \o dmi \o ma_alignment \o price_vs_ma60,
         momentum |-> rsi \o kdj \o kdj_j \o cci \o williams,
         volume |-> volume_change \o obv \o volume_vs_ma5,
         volatility |-> atr \o bollinger \o bb_width,
         ai_prediction |-> ai]

\* one category analyzer on a pair of rows: its score and its signal records
AnalyzeCategory ==
    /\ pc = "category"
    /\ LET scores == [trend |-> analyze_trend(req.latest, req.previous),
                      momentum |-> analyze_momentum(req.latest, req.previous),
                      volume |-> analyze_volume(req.latest, req.previous),
                      volatility |-> analyze_volatility(req.latest),
                      ai_prediction |-> analyze_ai_prediction(req.prediction_data)]
           signals == detailed_signals(req.latest, req.previous, req.prediction_data)
       IN  analysis' = [score |-> scores[req.category], signals |-> signals[req.category]]
    /\ pc' = "done"
    /\ UNCHANGED <<KERAS_AVAILABLE, req, predictor, train_log, split, result>>
    /\ UNCHANGED compare_vars

(***************************************************************************)
(* get_signal_history (routers/stock/stock_signal_router.py): the analyzer *)
(* replayed over the trailing window of the clean table.  A date is the    *)
(* row's place in the clean table.                                         *)
(***************************************************************************)
\* the shortest window the endpoint accepts (Query(30, ge=7, le=90))
min_history_days == 7

\* the longest clean table of a history request
MaxHistoryRows == 8

\* (mutation) every day analysed on the whole window
replay_signals_lookahead(clean, days) ==
    LET none == [given |-> FALSE, predictions |-> 0, current_price |-> 0,
                 predicted_price |-> 0]
        first == Max(1, Len(clean) - days + 1)
        df == SubSeq(clean, first, Len(clean))
        entry(k, signal) ==
            [date |-> first + k, signal |-> signal.signal, score |-> signal.score,
             confidence |-> signal.confidence, price |-> df[k + 1].Close,
             volume |-> df[k + 1].Volume]
    IN  [k \in 1..Max(0, Len(df) - 1) |->
            entry(k, analyze_signal(Len(df), df[Len(df)], df[Len(df) - 1], none))]

\* df.tail(days) and the loop over its rows: one entry per row of the window
\* but the first, each from analyze_signal(df.iloc[:i+1], None).  Scores and
\* confidence in hundredths
replay_signals(clean, days) ==
    LET none == [given |-> FALSE, predictions |-> 0, current_price |-> 0,
                 predicted_price |-> 0]
        first == Max(1, Len(clean) - days + 1)
        df == SubSeq(clean, first, Len(clean))
        entry(k, signal) ==
            [date |-> first + k, signal |-> signal.signal, score |-> signal.score,
             confidence |-> signal.confidence, price |-> df[k + 1].Close,
             volume |-> df[k + 1].Volume]
    IN  [k \in 1..Max(0, Len(df) - 1) |->
            entry(k, analyze_signal(k + 1, df[k + 1], df[k], none))]

\* the body of the handler after dropna(): the history, then the accuracy
\* loop over the pairs of consecutive entries and the counts; the accuracy in
\* hundredths
signal_history(history) ==
    LET buy(k) == history[k].signal \in {"strong_buy", "buy"}
        sell(k) == history[k].signal \in {"strong_sell", "sell"}
        judged == {k \in 1..(Len(history) - 1) : buy(k) \/ sell(k)}
        correct == {k \in judged : IF buy(k) THEN history[k + 1].price > history[k].price
                                   ELSE history[k + 1].price < history[k].price}
        total_signals == Cardinality(judged)
        correct_signals == Cardinality(correct)
    IN  [history |-> history,
         statistics |->
             [total_signals |-> total_signals,
              correct_signals |-> correct_signals,
              accuracy |-> IF total_signals > 0
                           THEN round2(correct_signals * 100, total_signals) ELSE 0,
              buy_signals |-> Cardinality({k \in 1..Len(history) : buy(k)}),
              sell_signals |-> Cardinality({k \in 1..Len(history) : sell(k)}),
              hold_signals |->
                  Cardinality({k \in 1..Len(history) : history[k].signal = "hold"})]]

\* the handler on a provider table that was not empty; req.clean is the table
\* after the indicators were computed and the incomplete rows dropped
GetSignalHistory ==
    /\ pc = "history"
    /\ \E history \in {replay_signals(req.clean, req.days)} :
           analysis' = signal_history(history)
    /\ pc' = "done"
    /\ UNCHANGED <<KERAS_AVAILABLE, req, predictor, train_log, split, result>>
    /\ UNCHANGED compare_vars

(***************************************************************************)
(* The routines above, each applied to an input drawn for it               *)
(***************************************************************************)
InitRoutines ==
    /\ \/ \* a latest row without a missing cell (the routers drop the others)
          \* and a signal
          /\ pc = "key_levels"
          /\ req = [endpoint |-> "key_levels"]
          /\ \E close \in {1, 10, 100}, atr \in 0..MaxATR,
                signal \in {"strong_buy", "buy", "hold", "sell", "strong_sell"} :
                 analysis = [latest |-> [Close |-> close, ATR |-> atr], signal |-> signal,
                             stop_loss |-> NaN, take_profit |-> NaN,
                             risk_reward |-> [ratio |-> NaN, risk |-> NaN, divides |-> FALSE]]
       \/ \* a table of 0..MaxReportRows rows whose last two rows are complete
          \* rows of a rising, a falling or a quiet market, with or without a
          \* forecast
          /\ pc = "report"
          /\ LET ReportRows ==
                     {IndicatorRow([close |-> 100, macd |-> macd, macd_signal |-> 0,
                                    adx |-> 30, dmi |-> <<20, 10>>, ma |-> <<4, 3, 2, 1>>,
                                    rsi |-> rsi, k |-> 50, d |-> 50, cci |-> 0,
                                    williams_r |-> -50, previous_volume |-> 10, obv |-> 1001,
                                    volume |-> 10, volume_ma |-> <<10, 10>>, atr |-> atr,
                                    bb_middle |-> 100, bb_std |-> 1]) :
                         macd \in {-1, 0, 1}, rsi \in {25, 50, 75}, atr \in {0, 2}}
             IN  req \in [endpoint : {"report"}, rows : 0..MaxReportRows,
                          latest : ReportRows, previous : ReportRows,
                          prediction_data :
                              {[given |-> FALSE, predictions |-> 0, current_price |-> 0,
                                predicted_price |-> 0],
                               [given |-> TRUE, predictions |-> 1, current_price |-> 100,
                                predicted_price |-> 106]}]
          /\ analysis = [empty_report EXCEPT !.signal = "none"]
       \/ \* a flat series: the same price in every price column of every row
          /\ pc = "engine"
          /\ \E price \in 1..MaxFlatPrice, volume \in 1..MaxFlatVolume :
                 req = [endpoint |-> "flat",
                        df |-> [High |-> [j \in 1..MaxFlatRows |-> price],
                                Low |-> [j \in 1..MaxFlatRows |-> price],
                                Close |-> [j \in 1..MaxFlatRows |-> price],
                                Volume |-> [j \in 1..MaxFlatRows |-> volume]]]
          /\ analysis = [at |-> [i |-> 0, exp1 |-> NaN, exp2 |-> NaN, MACD_Signal |-> NaN,
                                 KDJ_K |-> NaN, KDJ_D |-> NaN, OBV |-> 0],
                         latest |-> NaN, previous |-> NaN,
                         report |-> [empty_report EXCEPT !.signal = "none"]]
       \/ \* recent_data = self.last_df.tail(100).copy() of a table of `rows` rows
          \* dated 1..rows whose last row has its own volume
          /\ pc = "loop"
          /\ req \in [endpoint : {"buffer"}, model_type : {"linear", "random_forest"},
                       days : 1..MaxSteps, rows : {1, 2, buffer_tail, MaxTableRows},
                       volume : {500, 700}]
          /\ LET kept == Min(req.rows, buffer_tail)
             IN  analysis =
                     [recent_data |->
                          [j \in 1..kept |->
                              [date |-> req.rows - kept + j, Close |-> 10000, Open |-> 10000,
                               High |-> 10000, Low |-> 10000,
                               Volume |-> IF j = kept THEN req.volume ELSE 600,
                               synthetic |-> FALSE]],
                      initial |-> kept, indicators |-> 0, i |-> 0, features_of |-> <<>>,
                      appended |-> <<>>, predictions |-> <<>>, returned |-> FALSE,
                      report |-> NoResult]
       \/ \* result dicts of up to three distinct models, in the order they were
          \* run, with metrics in whole percent; a failed result has none
          /\ pc = "find_best"
          /\ LET NoMetrics == [direction_accuracy |-> 0, mape |-> 0, win_rate |-> 0]
                 Outcomes ==
                     [model : ModelTypes, success : BOOLEAN,
                      metrics : [direction_accuracy : {40, 60}, mape : {5, 20, 55},
                                 win_rate : {30, 70}] \cup {NoMetrics}]
             IN  \E n \in 0..MaxModels :
                     /\ req \in [endpoint : {"find_best"}, results : [1..n -> Outcomes]]
                     /\ \A i, j \in 1..n :
                            i # j => req.results[i].model # req.results[j].model
                     /\ \A i \in 1..n :
                            req.results[i].success = (req.results[i].metrics # NoMetrics)
          /\ analysis = NoAnalysis
       \/ \* what the provider returns to train()
          /\ pc = "train"
          /\ req \in [endpoint : {"train"}, model_type : {"lstm"}, fetch : FetchOutcomes]
          /\ analysis = NoAnalysis
       \/ \* a training period label and a backtest horizon
          /\ pc = "period"
          /\ req \in [endpoint : {"period"},
                       training_period : {"1mo", "3mo", "6mo", "1y", "2y", "5y", "max"},
                       days : min_backtest_days..max_backtest_days]
          /\ analysis = NoAnalysis
       \/ \* a forecast: the predicted prices of its points, in order
          /\ pc = "ai_prediction"
          /\ req \in [endpoint : {"ai_prediction"},
                       prediction_data :
                           [given : BOOLEAN, current_price : {0, 100, 200},
                            predictions : UNION {[1..n -> PredictedPrices] :
                                                    n \in 0..MaxPoints}]]
          /\ analysis = NoAnalysis
       \/ \* a forecast of at least one point (an empty one is answered before
          \* the metrics) and the closes of the validation slice
          /\ pc = "metrics"
          /\ \E n \in 1..MaxPairs, actual_days \in 1..MaxPairs :
                 req \in [endpoint : {"metrics"},
                          predictions : [1..n -> {95, 100, 106}],
                          actual_prices : [1..actual_days -> {100, 101}]]
          /\ analysis = NoAnalysis
       \/ \* a category and the last two rows of a table, as the Indicator Engine
          \* lays them out.  The cells the category reads are drawn around its
          \* thresholds, the others are those of a quiet day.  A volume is 100
          \* on the day before, so that Volume_Change is a whole number or lies
          \* between -1 and 1
          /\ pc = "category"
          /\ LET quiet == [close |-> 100, macd |-> 0, macd_signal |-> 0, adx |-> 30,
                           dmi |-> <<20, 10>>, ma |-> <<4, 3, 2, 1>>, rsi |-> 50, k |-> 50,
                           d |-> 50, cci |-> 0, williams_r |-> -50, volume |-> 100,
                           previous_volume |-> 100, obv |-> 1001,
                           volume_ma |-> <<100, 100>>, atr |-> 2, bb_middle |-> 100,
                           bb_std |-> 1]
                 none == [given |-> FALSE, predictions |-> 0, current_price |-> 0,
                          predicted_price |-> 0]
                 pair(category, latest, previous, prediction_data) ==
                     [endpoint |-> "category", category |-> category,
                      latest |-> IndicatorRow(latest), previous |-> IndicatorRow(previous),
                      prediction_data |-> prediction_data]
             IN  \/ \E macd \in {-1, 0, 1}, previous_macd \in {-1, 0, 1}, adx \in {25, 26},
                       dmi \in {<<20, 10>>, <<10, 20>>},
                       ma \in {<<99, 98, 97, 96>>, <<96, 97, 98, 99>>,
                               <<100, 100, 100, 100>>, <<101, 102, 103, 104>>} :
                        req = pair("trend",
                                   [quiet EXCEPT !.macd = macd, !.adx = adx, !.dmi = dmi,
                                                 !.ma = ma],
                                   [quiet EXCEPT !.macd = previous_macd], none)
                 \/ \E rsi \in {29, 30, 39, 40, 60, 61, 70, 71, NaN}, k \in {10, 50, 90},
                       previous_k \in {10, 50, 90}, cci \in {-101, 0, 101},
                       williams_r \in {-81, -50, -19} :
                        req = pair("momentum",
                                   [quiet EXCEPT !.rsi = rsi, !.k = k, !.cci = cci,
                                                 !.williams_r = williams_r],
                                   [quiet EXCEPT !.k = previous_k], none)
                 \/ \E volume \in {0, 69, 70, 100, 121, 151, 200, 2100, 2200, 5100, 5200},
                       previous_close \in {99, 100}, obv \in {10, 100000} :
                        req = pair("volume",
                                   [quiet EXCEPT !.volume = volume, !.obv = obv],
                                   [quiet EXCEPT !.close = previous_close], none)
                 \/ \E price \in {10, 100}, offset \in {-3, 0, 3}, atr \in {0, 2, 4},
                       bb_std \in {0, 1, 2} :
                        req = pair("volatility",
                                   [quiet EXCEPT !.close = price, !.atr = atr,
                                                 !.bb_middle = price + offset,
                                                 !.bb_std = bb_std],
                                   quiet, none)
                 \/ \E prediction_data \in PredictionData :
                        req = pair("ai_prediction", quiet, quiet, prediction_data)
          /\ analysis = NoAnalysis
       \/ \* a clean table of rows of a rising market (close 100), a falling
          \* market (close 101) and a quiet market (close 102), in any order
          /\ pc = "history"
          /\ LET cell == [close |-> 102, macd |-> 0, macd_signal |-> 0, adx |-> 20,
                          dmi |-> <<10, 10>>, ma |-> <<102, 102, 102, 102>>, rsi |-> 50,
                          k |-> 50, d |-> 50, cci |-> 0, williams_r |-> -50,
                          previous_volume |-> 10, obv |-> 1001, volume |-> 10,
                          volume_ma |-> <<10, 10>>, atr |-> 2, bb_middle |-> 102,
                          bb_std |-> 1]
                 HistoryRows ==
                     {IndicatorRow(cell),
                      IndicatorRow([cell EXCEPT !.close = 100, !.macd = 1, !.adx = 30,
                                                !.dmi = <<20, 10>>, !.ma = <<99, 98, 97, 96>>,
                                                !.rsi = 25, !.k = 10, !.d = 5, !.cci = -101,
                                                !.williams_r = -81, !.bb_middle = 100]),
                      IndicatorRow([cell EXCEPT !.close = 101, !.macd = -1, !.adx = 30,
                                                !.dmi = <<10, 20>>,
                                                !.ma = <<102, 103, 104, 105>>,
                                                !.rsi = 75, !.k = 90, !.d = 95, !.cci = 101,
                                                !.williams_r = -19, !.bb_middle = 101])}
             IN  \E m \in 0..MaxHistoryRows :
                     req \in [endpoint : {"history"}, days : {min_history_days},
                              clean : [1..m -> HistoryRows]]
          /\ analysis = NoAnalysis
    /\ KERAS_AVAILABLE \in (IF req.endpoint = "train" THEN BOOLEAN ELSE {FALSE})
    /\ predictor = NewPredictor(IF req.endpoint = "train" THEN "lstm" ELSE "none")
    /\ train_log = NoTrain
    /\ split = NoSplit
    /\ result = NoResult
    /\ NoComparison

NextRoutines ==
    \/ CalculateKeyLevels
    \/ AnalyzeSignal
    \/ IndicatorStep
    \/ AnalyzeFlat
    \/ PredictStep
    \/ PredictStepRaises
    \/ ReturnPredictions
    \/ FindBestBacktestModel
    \/ Train
    \/ ExtendPeriod
    \/ AnalyzeForecast
    \/ CalculateBacktestMetrics
    \/ AnalyzeCategory
    \/ GetSignalHistory


SpecRoutines == InitRoutines /\ [][NextRoutines]_vars

(***************************************************************************)
(* Properties of the Forecast Models (checked under SpecPredict)           *)
(***************************************************************************)
\* the message predict_stock_price reports when the fetch is empty (the raw
\* data is insufficient)
RawFailureMessage ==
    predict_stock_price("linear", min_days, History(0, {}), 0, TRUE).result.message

\* C6: a training failure caused by too few clean rows after the indicators
\* are computed and incomplete rows dropped is reported with a message other
\* than the one of a failure caused by insufficient raw data.
C6_CleanFailureDistinctFromRaw ==
    (pc = "done" /\ req.endpoint = "predict" /\ train_log.called /\ train_log.cause = "clean")
        => result.message # RawFailureMessage

\* C7: for a fetched series of fewer than 60 rows (the empty one included)
\* train() returns False, raises nothing and leaves the model unfitted, and
\* predict_stock_price returns success=False with the insufficient-data message.
C7_ShortSeriesFailsTraining ==
    (pc = "done" /\ req.endpoint = "predict" /\ train_log.called
        /\ train_log.rows < LongestWindow)
        => /\ ~train_log.ok
           /\ ~train_log.raised
           /\ ~predictor.fitted
           /\ Length(predictor.fitted_on) = 0
           /\ ~result.raised
           /\ ~result.success
           /\ result.message = MSG_INSUFFICIENT_HISTORY

\* a series that passes the raw-row minimum and still has fewer than 60 rows
C7_Witness ==
    /\ pc = "done" /\ req.endpoint = "predict"
    /\ train_log.called /\ train_log.rows = LongestWindow - 1
    /\ train_log.cause = "clean"
    /\ result.message = MSG_INSUFFICIENT_HISTORY

\* C9: the confidence of days_ahead = d is non-increasing in d, stays within
\* [0.3, 1.0] for d in 1..90, and falls strictly from 0.83 at d = 1 to 0.75 at
\* d = 5 (read off the linear model's points, whose scaling factor is 1.0).
C9_ConfidenceDecay ==
    (pc = "done" /\ req.endpoint = "predict" /\ req.model_type = "linear" /\ result.success)
        => LET P == result.predictions
               conf(i) == P[i].confidence
           IN  /\ Len(P) = req.days
               /\ \A i \in 1..Len(P) :
                     /\ 30 * 100 <= conf(i) /\ conf(i) <= 100 * 100
                     /\ i > 1 => conf(i) <= conf(i - 1)
                     /\ (i > 1 /\ i <= 5) => conf(i) < conf(i - 1)
                     /\ i = 1 => conf(i) = 83 * 100
                     /\ i = 5 => conf(i) = 75 * 100

\* a 90-day linear forecast whose last points sit on the 0.3 floor
C9_Witness ==
    /\ pc = "done" /\ req.endpoint = "predict" /\ req.model_type = "linear"
    /\ result.success /\ Len(result.predictions) = max_days
    /\ result.predictions[5].confidence = 75 * 100
    /\ result.predictions[max_days].confidence = 30 * 100

\* C10: every Forecast Point of every model, for every step 1..90, has a
\* confidence within [0, 1] after the per-model scaling.
C10_ScaledConfidenceIsProbability ==
    (pc = "done" /\ req.endpoint = "predict" /\ result.success)
        => \A i \in 1..Len(result.predictions) :
              /\ 0 <= result.predictions[i].confidence
              /\ result.predictions[i].confidence <= 100 * 100

\* a 90-day forecast of the sequence model: its first point has 0.83 x 1.15
C10_Witness ==
    /\ pc = "done" /\ req.endpoint = "predict" /\ req.model_type = "lstm"
    /\ result.success /\ Len(result.predictions) = max_days
    /\ result.predictions[1].confidence = 9545

(***************************************************************************)
(* Properties of the walk-forward backtest (checked under SpecBacktest)    *)
(***************************************************************************)
\* C2: in _run_backtest the model is fitted only on the training slice:
\* train() fetches nothing itself, and no row of the trailing validation
\* window is among the rows the model is fitted on or seeded with.
C2_FittedOnTrainingSliceOnly ==
    (pc = "done" /\ req.endpoint = "backtest" /\ train_log.called /\ predictor.fitted)
        => /\ ~train_log.fetched
           /\ \A d \in split.actual_df.first..split.actual_df.last :
                 ~HasRow(predictor.fitted_on, d) /\ ~HasRow(predictor.last_df, d)

\* C3: with n fetched rows and horizon N in 7..90: if n < 60 or n - N < 60 the
\* result is a success=False record with no comparison data and nothing is
\* split; otherwise the training slice has n - N rows, the validation slice
\* N rows, together n rows, and the two are the disjoint contiguous halves
\* of the fetched table.
C3_SplitInvariant ==
    (pc = "done" /\ req.endpoint = "backtest" /\ split.ran /\ split.fetched_ok)
        => LET n == Length(split.fetched)
               N == req.days
               training_rows == Length(split.train_df)
               validation_rows == Length(split.actual_df)
           IN  IF n < 60 \/ n - N < 60
               THEN /\ ~result.success /\ ~result.raised
                    /\ result.comparison_data = <<>>
                    /\ ~split.done
               ELSE /\ split.done
                    /\ training_rows = n - N
                    /\ validation_rows = N
                    /\ training_rows + validation_rows = n
                    /\ split.train_df.first = split.fetched.first
                    /\ split.train_df.last + 1 = split.actual_df.first
                    /\ split.actual_df.last = split.fetched.last
                    /\ \A d \in split.fetched.first..split.fetched.last :
                          HasRow(split.train_df, d) # HasRow(split.actual_df, d)

\* the longest horizon on the shortest table that still leaves 60 training
\* rows, backtested to the end
C3_Witness ==
    /\ pc = "done" /\ req.endpoint = "backtest" /\ split.done
    /\ req.days = max_backtest_days
    /\ Length(split.fetched) = 150
    /\ Length(split.train_df) = 60
    /\ result.success /\ Len(result.comparison_data) = max_backtest_days

(***************************************************************************)
(* Properties of the comparisons (SpecCompare)                             *)
(***************************************************************************)
Requested == {req.models[i] : i \in 1..Len(req.models)}

\* a comparison that passed validation has ended
Compared ==
    /\ pc = "done"
    /\ req.endpoint \in {"predict/compare", "backtest/compare"}
    /\ ~result.raised

\* what the run at place i of the request leaves, from its own draws alone
OwnOutcome(i, keras) ==
    IF req.endpoint = "predict/compare"
    THEN run_single_model_with_timing(req.models[i], req.days, market, runs[i].fail_step,
                                      runs[i].crash, keras)
    ELSE compare_backtest_iteration(req.models[i], req.days, runs[i].ext, market,
                                    runs[i].fail_step, keras)

\* the run at place i raised, or the provider failed it
RunFailed(i) ==
    \/ market.kind = "error"
    \/ runs[i].fail_step \in 1..req.days
    \/ req.endpoint = "predict/compare" /\ runs[i].crash
    \/ req.endpoint = "backtest/compare" /\ runs[i].ext.kind = "error"

\* C4: once every run of a comparison has finished, whatever the order in
\* which the workers ran, the result set holds one record per requested model
\* name; the record of a name is the one its own (latest) run produced from
\* its own draws, so a run that failed or raised leaves success = False in its
\* own slot and no other run is aborted or has its record changed.
C4_OneRecordPerModel ==
    Compared =>
        /\ DOMAIN results = Requested
        /\ \A i \in 1..Len(req.models) :
              /\ runs[i].state = "done"
              /\ runs[i].record = OwnOutcome(i, KERAS_AVAILABLE).record
              /\ (\A j \in (i + 1)..Len(req.models) : req.models[j] # req.models[i])
                    => /\ results[req.models[i]] = runs[i].record
                       /\ RunFailed(i) => ~results[req.models[i]].success

\* a parallel comparison of the three models where one run raised, one run
\* failed to forecast and the third succeeded
C4_Witness ==
    /\ Compared
    /\ req.endpoint = "predict/compare"
    /\ req.models = <<"linear", "random_forest", "lstm">>
    /\ runs[1].crash /\ results["linear"].text = MSG_EXCEPTION
    /\ results["random_forest"].text = MSG_PREDICTION_FAILED
    /\ results["lstm"].success

\* C5: without Keras, the 'lstm' slot of a comparison is a failure whose
\* message is neither the training-failure message of a prediction nor that of
\* a backtest, and its run never called train(); the slots of the other
\* models are what their runs produce on their own.
C5_MissingKerasReportedDistinctly ==
    (Compared /\ ~KERAS_AVAILABLE) =>
        \A i \in 1..Len(req.models) :
            (\A j \in (i + 1)..Len(req.models) : req.models[j] # req.models[i]) =>
                IF req.models[i] = "lstm"
                THEN /\ ~results["lstm"].success
                     /\ results["lstm"].text =
                            IF req.endpoint = "predict/compare" THEN MSG_KERAS_MISSING
                            ELSE MSG_KERAS_MISSING_BACKTEST
                     /\ results["lstm"].text \notin
                            {MSG_INSUFFICIENT_HISTORY, MSG_TRAINING_FAILED, MSG_PREDICTION_FAILED,
                             MSG_BACKTEST_HISTORY, MSG_TRAINING_DATA}
                     /\ ~runs[i].trained
                ELSE /\ results[req.models[i]] = OwnOutcome(i, TRUE).record
                     /\ runs[i].trained = OwnOutcome(i, TRUE).trained

\* a backtest comparison without Keras: the 'lstm' slot is refused, the two
\* others are trained and answered
C5_Witness ==
    /\ Compared
    /\ ~KERAS_AVAILABLE
    /\ req.endpoint = "backtest/compare"
    /\ req.models = <<"lstm", "linear", "random_forest">>
    /\ results["lstm"].text = MSG_KERAS_MISSING_BACKTEST
    /\ results["linear"].success /\ runs[2].trained
    /\ results["random_forest"].success /\ runs[3].trained

(***************************************************************************)
(* Properties of the Signal Analyzer (SpecClassify, SpecSignal)            *)
(***************************************************************************)
\* C1: every composite score of [0, 100] is given exactly one signal, by
\* inclusive lower bounds: 75 and above strong_buy, 60 up to 75 buy, 40 up to
\* 60 hold, 25 up to 40 sell, below 25 strong_sell; 75, 60, 40 and 25
\* themselves fall in the higher bucket.
C1_SignalThresholds ==
    (pc = "done" /\ req.endpoint = "signal_type") =>
        LET score == analysis.score
            signal == analysis.signal
        IN  /\ signal \in {"strong_buy", "buy", "hold", "sell", "strong_sell"}
            /\ (signal = "strong_buy") = (score >= 7500)
            /\ (signal = "buy") = (6000 <= score /\ score < 7500)
            /\ (signal = "hold") = (4000 <= score /\ score < 6000)
            /\ (signal = "sell") = (2500 <= score /\ score < 4000)
            /\ (signal = "strong_sell") = (score < 2500)

\* the score 60.00 has been classified, as buy
C1_Witness ==
    /\ pc = "done"
    /\ req.endpoint = "signal_type"
    /\ analysis.score = 6000
    /\ analysis.signal = "buy"

\* C8: for a table of at least two rows, each of the five category scores of
\* the report lies in [0, 100], and the composite score is 0.30 trend + 0.25
\* momentum + 0.20 volume + 0.15 volatility + 0.10 ai_prediction (here in
\* hundredths), the weights summing to 1, so that it lies in [0, 100] too.
C8_CompositeIsWeightedSum ==
    (pc = "done" /\ req.endpoint = "signal" /\ analysis.rows >= 2) =>
        /\ analysis.trend \in 0..100
        /\ analysis.momentum \in 0..100
        /\ analysis.volume \in 0..100
        /\ analysis.volatility \in 0..100
        /\ analysis.ai_prediction \in 0..100
        /\ analysis.score = 30 * analysis.trend + 25 * analysis.momentum
                            + 20 * analysis.volume + 15 * analysis.volatility
                            + 10 * analysis.ai_prediction
        /\ signal_weights.trend + signal_weights.momentum + signal_weights.volume
           + signal_weights.volatility + signal_weights.ai_prediction = 100
        /\ analysis.score \in 0..10000

\* a report whose trend score is held at 100 and whose momentum score is held
\* at 0 by the clamp
C8_Witness ==
    /\ pc = "done"
    /\ req.endpoint = "signal"
    /\ analysis.rows >= 2
    /\ analysis.trend = 100
    /\ analysis.momentum = 0
    /\ analysis.ai_prediction = 80
    /\ analysis.score = 30 * 100 + 20 * analysis.volume + 15 * analysis.volatility + 10 * 80

(***************************************************************************)
(* Properties of the key levels (SpecRoutines)                             *)
(***************************************************************************)
\* C11: for every latest row and every signal type the reported risk-reward
\* ratio is a number >= 0, it is 0 exactly when the stop loss equals the
\* current price, and the quotient is never formed with a zero risk.
C11_RiskRewardNonNegative ==
    (pc = "done" /\ req.endpoint = "key_levels") =>
        /\ analysis.risk_reward.ratio # NaN
        /\ analysis.risk_reward.ratio >= 0
        /\ (analysis.risk_reward.ratio = 0) = (analysis.stop_loss = 2 * analysis.latest.Close)
        /\ analysis.risk_reward.divides => analysis.risk_reward.risk # 0

\* a hold report on a row without volatility: the stop loss is the price and
\* the ratio is 0
C11_Witness ==
    /\ pc = "done"
    /\ req.endpoint = "key_levels"
    /\ analysis.signal = "hold"
    /\ analysis.latest.ATR = 0
    /\ analysis.stop_loss = 2 * analysis.latest.Close
    /\ analysis.risk_reward.ratio = 0

(***************************************************************************)
(* Properties of the Signal Report (SpecRoutines)                          *)
(***************************************************************************)
\* C12: analyze_signal on an empty table or on a table of fewer than 2 rows
\* returns the empty-signal sentinel (hold, score 50, confidence 0, empty
\* category_scores, detailed_signals and key_levels, risk_reward_ratio 0) and
\* raises nothing; on 2 or more rows it never returns the sentinel.
C12_EmptySignalSentinel ==
    (pc = "done" /\ req.endpoint = "report") =>
        LET sentinel == /\ analysis.signal = "hold"
                        /\ analysis.score = 5000
                        /\ analysis.confidence = 0
                        /\ DOMAIN analysis.category_scores = {}
                        /\ analysis.detailed_signals = {}
                        /\ DOMAIN analysis.key_levels = {}
                        /\ analysis.risk_reward_ratio = 0
        IN  /\ ~analysis.raised
            /\ sentinel = (req.rows < 2)

\* a one-row table answered by the sentinel
C12_Witness ==
    /\ pc = "done"
    /\ req.endpoint = "report"
    /\ req.rows = 1
    /\ analysis.signal = "hold"
    /\ analysis.confidence = 0
    /\ DOMAIN analysis.category_scores = {}

(***************************************************************************)
(* Properties of the Indicator Engine on a flat series                     *)
(***************************************************************************)
\* C14: for a series with a constant close price the RSI is 50 at every row
\* that has a full 14-day look-back; the zero average gain and zero average
\* loss never produce an undefined value.
C14_ConstantCloseRSIIs50 ==
    (req.endpoint = "flat" /\ analysis.at.i >= rsi_window) =>
        /\ analysis.latest.RSI # NaN
        /\ analysis.latest.RSI = 50

(***************************************************************************)
(* Properties of the analyzer on a flat series (SpecRoutines)              *)
(***************************************************************************)
\* C13: the indicator rows of a flat, zero-volatility 100-day series, given
\* to the analyzer without a forecast, yield a composite score near 50, the
\* signal hold and a risk-reward ratio of 0.
C13_FlatSeriesHolds ==
    (pc = "done" /\ req.endpoint = "flat") =>
        /\ analysis.report.score >= 4000
        /\ analysis.report.score < 6000
        /\ analysis.report.signal = "hold"
        /\ analysis.report.risk_reward_ratio = 0

(***************************************************************************)
(* Properties of the forecast sequence (SpecPredict)                       *)
(***************************************************************************)
\* C15: predict_next_days(n) returns at most n Forecast Points in step
\* order: point i carries the confidence of days_ahead = i (with the model's
\* factor) and the dates increase strictly along the sequence.
C15_ForecastInStepOrder ==
    (pc = "done" /\ req.endpoint = "predict") =>
        LET points == result.predictions
        IN  /\ Len(points) <= req.days
            /\ \A i \in 1..Len(points) :
                   /\ points[i].confidence
                          = calculate_confidence(i) * confidence_scale(req.model_type)
                   /\ i > 1 => points[i].date > points[i - 1].date

\* a full-horizon forecast of the rolling-buffer loop
C15_Witness ==
    /\ pc = "done"
    /\ req.endpoint = "predict"
    /\ req.model_type = "random_forest"
    /\ req.days = max_days
    /\ Len(result.predictions) = max_days
    /\ result.predictions[max_days].date = result.predictions[1].date + max_days - 1

(***************************************************************************)
(* Properties of the rolling buffer (SpecRoutines)                         *)
(***************************************************************************)
\* C16: after step k the buffer holds the initial rows and k synthetic rows,
\* one per step: close = open = the price predicted at that step, high 1.01
\* and low 0.99 of it, volume that of the row that was last before it; the
\* indicators were computed over the whole buffer of step k before its
\* features were read, and the features of step k+1 come from the synthetic
\* row of step k.
C16_OneSyntheticRowPerStep ==
    (req.endpoint = "buffer" /\ pc \in {"loop", "done"}) =>
        LET recent_data == analysis.recent_data
            k == analysis.i
        IN  /\ Len(recent_data) = analysis.initial + k
            /\ k >= 1 => analysis.indicators = analysis.initial + k - 1
            /\ \A step \in 1..k :
                   LET row == recent_data[analysis.initial + step]
                       before == recent_data[analysis.initial + step - 1]
                       price == analysis.appended[step].Close
                   IN  /\ row = analysis.appended[step]
                       /\ row.synthetic
                       /\ row.Open = price
                       /\ 100 * row.High = 101 * price
                       /\ 100 * row.Low = 99 * price
                       /\ row.Volume = before.Volume
                       /\ row.date = before.date + 1
                       /\ analysis.features_of[step] = before.date
                       /\ (pc = "loop" \/ Len(analysis.predictions) > 0) =>
                              analysis.predictions[step].predicted_price = price

\* three steps on a table longer than the tail
C16_Witness ==
    /\ req.endpoint = "buffer"
    /\ pc = "done"
    /\ req.rows = MaxTableRows
    /\ analysis.i = MaxSteps
    /\ Len(analysis.recent_data) = buffer_tail + MaxSteps
    /\ analysis.recent_data[buffer_tail + MaxSteps].Volume = 700
    /\ analysis.features_of[MaxSteps] = analysis.recent_data[buffer_tail + MaxSteps - 1].date
    /\ analysis.recent_data[buffer_tail + MaxSteps - 1].synthetic

(***************************************************************************)
(* Properties of the backtest ranking (SpecRoutines)                       *)
(***************************************************************************)
\* C17: only models whose backtest succeeded are ranked: by_direction names a
\* model with the highest directional accuracy, by_accuracy one with the
\* lowest MAPE, by_overall one maximising 0.4 direction + 0.3 max(0, 100 - 2
\* MAPE) + 0.3 win rate; a failed model is never named, and when no model
\* succeeded every best field is None.
C17_BestAmongSuccessful ==
    (pc = "done" /\ req.endpoint = "find_best") =>
        LET outcomes == req.results
            ok == {i \in 1..Len(outcomes) : outcomes[i].success}
            named(field, best(_, _)) ==
                \E i \in ok : /\ analysis[field] = outcomes[i].model
                              /\ \A j \in ok : best(outcomes[i].metrics, outcomes[j].metrics)
            score(m) == 4 * m.direction_accuracy
                        + 3 * (IF 100 - 2 * m.mape > 0 THEN 100 - 2 * m.mape ELSE 0)
                        + 3 * m.win_rate
        IN  IF ok = {}
            THEN \A field \in DOMAIN analysis : analysis[field] = "None"
            ELSE /\ named("by_direction",
                          LAMBDA a, b : a.direction_accuracy >= b.direction_accuracy)
                 /\ named("by_accuracy", LAMBDA a, b : a.mape <= b.mape)
                 /\ named("by_overall", LAMBDA a, b : score(a) >= score(b))
                 /\ \A field \in DOMAIN analysis :
                        \E i \in ok : analysis[field] = outcomes[i].model

\* a failed model listed first, two successful ones that split the rankings
C17_Witness ==
    /\ pc = "done"
    /\ req.endpoint = "find_best"
    /\ Len(req.results) = 3
    /\ ~req.results[1].success
    /\ req.results[2].success
    /\ req.results[3].success
    /\ analysis.by_direction = req.results[2].model
    /\ analysis.by_accuracy = req.results[3].model
    /\ analysis.by_overall = req.results[3].model

(***************************************************************************)
(* Properties of LSTMPredictor.train (SpecRoutines)                        *)
(***************************************************************************)
\* C18 as stated: the check of lookback + 30 = 90 rows is applied to the row
\* count before incomplete rows are dropped: 90 or more raw rows are not
\* rejected by it, fewer than 90 raw rows make train() return False.
C18_RawRowCheck ==
    (pc = "done" /\ req.endpoint = "train" /\ KERAS_AVAILABLE /\ req.fetch.kind = "ok") =>
        /\ Length(req.fetch.rows) >= 90 => train_log.cause # "clean"
        /\ Length(req.fetch.rows) < 90 => ~train_log.ok /\ ~train_log.raised

\* C18 (amended): the check of lookback + 30 = 90 rows is applied to the rows
\* left after the incomplete rows are dropped: 90 or more complete rows are
\* not rejected by it, and fewer than 90 complete rows (so also fewer than 90
\* raw rows) make train() return False.
C18_CleanRowCheck ==
    (pc = "done" /\ req.endpoint = "train" /\ KERAS_AVAILABLE /\ req.fetch.kind = "ok") =>
        LET clean == Length(dropna(req.fetch))
        IN  /\ clean >= 90 => train_log.cause = "fitted" /\ train_log.ok
            /\ clean < 90 => ~train_log.ok /\ ~train_log.raised
            /\ Length(req.fetch.rows) < 90 => ~train_log.ok /\ ~train_log.raised

\* 90 or more fetched rows of which fewer than 90 are complete: rejected
C18_Witness ==
    /\ pc = "done"
    /\ req.endpoint = "train"
    /\ KERAS_AVAILABLE
    /\ req.fetch.kind = "ok"
    /\ Length(req.fetch.rows) >= 90
    /\ Length(dropna(req.fetch)) = 89
    /\ train_log.cause = "clean"
    /\ ~train_log.ok

(***************************************************************************)
(* Properties of the extended period (SpecRoutines)                        *)
(***************************************************************************)
\* C19: for every training period label the fetched period comes from the
\* fixed lookup, covers the training period plus the backtest horizon N, and
\* is never shorter than the training period.
C19_ExtendedPeriodCovers ==
    (pc = "done" /\ req.endpoint = "period") =>
        /\ analysis.extended_period = extended_period(req.training_period)
        /\ period_rows(analysis.extended_period)
               >= period_rows(req.training_period) + req.days
        /\ period_rows(analysis.extended_period) >= period_rows(req.training_period)

(***************************************************************************)
(* Properties of the AI category (SpecRoutines)                            *)
(***************************************************************************)
\* C20: the AI score is 50 without a forecast, without points or with a
\* current price that is not positive; otherwise it depends only on the
\* percent change c of the first point against the current price: 80 for
\* c > 5, 70 for 2 < c <= 5, 20 for c < -5, 30 for -5 <= c < -2, else 50.
\* No later point has a part in it.
C20_AiScoreFromFirstPoint ==
    (pc = "done" /\ req.endpoint = "ai_prediction") =>
        LET forecast == req.prediction_data
            current == forecast.current_price
            c100 == (forecast.predictions[1] - current) * 100
        IN  analysis.ai_prediction =
                IF ~forecast.given \/ Len(forecast.predictions) = 0 \/ current <= 0 THEN 50
                ELSE IF c100 > 5 * current THEN 80
                ELSE IF c100 > 2 * current THEN 70
                ELSE IF c100 < -5 * current THEN 20
                ELSE IF c100 < -2 * current THEN 30
                ELSE 50

\* a first point of exactly +5 percent followed by a point of +6 percent
C20_Witness ==
    /\ pc = "done"
    /\ req.endpoint = "ai_prediction"
    /\ req.prediction_data.given
    /\ req.prediction_data.current_price = 100
    /\ Len(req.prediction_data.predictions) = 2
    /\ req.prediction_data.predictions[1] = 105
    /\ req.prediction_data.predictions[2] = 106
    /\ analysis.ai_prediction = 70

(***************************************************************************)
(* Properties of the backtest metrics (SpecRoutines)                       *)
(***************************************************************************)
\* C21: over k >= 1 paired points direction_accuracy is 100 * (consecutive
\* pairs whose predicted and actual series both rose or both did not) /
\* (k - 1) when k >= 2 and 0 when k < 2, win_rate is 100 * (points whose
\* absolute percent error is at most 5) / k, each to two decimals; both lie
\* in [0, 100] and total_predictions = k <= backtest_days.
C21_DirectionAndWinRate ==
    (pc = "done" /\ req.endpoint = "metrics") =>
        LET points == analysis.comparison_data
            k == Len(points)
            metrics == analysis.metrics
            up(series, i) == series[i] > series[i - 1]
            agree == {i \in 2..k : up(req.predictions, i) <=> up(req.actual_prices, i)}
            wins == {i \in 1..k :
                        /\ 100 * (req.predictions[i] - req.actual_prices[i])
                               <= 5 * req.actual_prices[i]
                        /\ 100 * (req.actual_prices[i] - req.predictions[i])
                               <= 5 * req.actual_prices[i]}
            \* reported is quotient, to the nearest hundredth
            nearest(reported, count, of) ==
                /\ 2 * (reported * of - 10000 * count) <= of
                /\ 2 * (10000 * count - reported * of) <= of
        IN  /\ k >= 1
            /\ IF k >= 2 THEN nearest(metrics.direction_accuracy, Cardinality(agree), k - 1)
               ELSE metrics.direction_accuracy = 0
            /\ nearest(metrics.win_rate, Cardinality(wins), k)
            /\ metrics.direction_accuracy \in 0..10000
            /\ metrics.win_rate \in 0..10000
            /\ metrics.total_predictions = k
            /\ k <= Len(req.actual_prices)

\* three points: the actual price stays while the forecast falls (a pair that
\* counts) and is off by exactly 5 percent, then both rise
C21_Witness ==
    /\ pc = "done"
    /\ req.endpoint = "metrics"
    /\ req.predictions = <<100, 95, 106>>
    /\ req.actual_prices = <<100, 100, 101>>
    /\ analysis.metrics.direction_accuracy = 10000
    /\ analysis.metrics.win_rate = 10000
    /\ analysis.metrics.total_predictions = 3

(***************************************************************************)
(* Properties of the category analyzers on rows of the Indicator Engine    *)
(* (SpecRoutines)                                                          *)
(***************************************************************************)
\* C22: with Volume_Change as the Indicator Engine computes it, a volume more
\* than 50 percent above that of the day before yields the surge record (+20
\* surge_bullish if the close rose, -15 surge_bearish otherwise), more than 20
\* percent above yields increasing (+10) and more than 30 percent below yields
\* shrinking (-10).
C22_VolumeThresholdsArePercent ==
    (pc = "done" /\ req.endpoint = "category" /\ req.category = "volume") =>
        LET before == req.previous.Volume
            change == 100 * (req.latest.Volume - before)
            record(signal, impact) ==
                <<[indicator |-> "Volume", signal |-> signal, impact |-> impact]>>
            expected ==
                IF change > 50 * before
                THEN IF req.latest.Close > req.previous.Close
                     THEN record("surge_bullish", 20)
                     ELSE record("surge_bearish", -15)
                ELSE IF change > 20 * before THEN record("increasing", 10)
                ELSE IF change < -30 * before THEN record("shrinking", -10)
                ELSE <<>>
        IN  SelectSeq(analysis.signals, LAMBDA s : s.indicator = "Volume") = expected

\* C23: with BB_Width as the Indicator Engine computes it, the squeeze record
\* (+5) is appended exactly when BB_Upper - BB_Lower is less than 2 percent of
\* the price and the expansion record (-5) exactly when it is more than 6
\* percent of the price.
C23_BandWidthIsPercentOfPrice ==
    (pc = "done" /\ req.endpoint = "category" /\ req.category = "volatility") =>
        LET width == req.latest.BB_Upper - req.latest.BB_Lower
            price == req.latest.Close
            emitted(signal, impact) ==
                \E i \in 1..Len(analysis.signals) :
                    analysis.signals[i] =
                        [indicator |-> "BB_Width", signal |-> signal, impact |-> impact]
        IN  /\ emitted("squeeze", 5) <=> 100 * width < 2 * price
            /\ emitted("expansion", -5) <=> 100 * width > 6 * price

\* C27: in every category analyzer each score adjustment is paired with one
\* signal record of the same signed impact: the category score is
\* clamp(50 + the sum of the impacts of the category's records, 0, 100).
C27_ScoreIsClampedSumOfImpacts ==
    (pc = "done" /\ req.endpoint = "category") =>
        LET impacts == [i \in 1..Len(analysis.signals) |-> analysis.signals[i].impact]
            total == neutral_score + window_sum(impacts, 1, Len(impacts))
        IN  analysis.score =
                IF total < 0 THEN 0 ELSE IF total > 100 THEN 100 ELSE total

\* a trend of five records whose impacts add up to 65: the score is held at
\* 100 by the clamp
C27_Witness ==
    /\ pc = "done"
    /\ req.endpoint = "category"
    /\ req.category = "trend"
    /\ Len(analysis.signals) = 5
    /\ {analysis.signals[i].impact : i \in 1..5} = {25, 10, 15, 5}
    /\ analysis.score = 100

\* C29: _analyze_trend appends exactly one MACD record, one of golden_cross
\* (+25), bullish (+15), death_cross (-25) and bearish (-15), and equality is
\* never neutral: a latest MACD equal to its signal line takes the bearish
\* side, a pair of rows with MACD equal to its signal line on both is scored
\* as a death cross (-25), and a close equal to MA60 is scored as below (-5).
C29_EqualityIsBearish ==
    (pc = "done" /\ req.endpoint = "category" /\ req.category = "trend") =>
        LET latest == req.latest
            previous == req.previous
            of(indicator) == SelectSeq(analysis.signals, LAMBDA s : s.indicator = indicator)
            macd == of("MACD")
            others == SelectSeq(analysis.signals,
                                LAMBDA s : s.indicator \notin {"MACD", "Price_vs_MA60"})
            rest == window_sum([i \in 1..Len(others) |-> others[i].impact], 1, Len(others))
            macd_part == IF latest.MACD > latest.MACD_Signal
                         THEN IF previous.MACD <= previous.MACD_Signal THEN 25 ELSE 15
                         ELSE IF previous.MACD >= previous.MACD_Signal THEN -25 ELSE -15
            ma60_part == IF latest.Close > latest.MA60 THEN 5 ELSE -5
            total == neutral_score + macd_part + rest + ma60_part
        IN  /\ Len(macd) = 1
            /\ <<macd[1].signal, macd[1].impact>>
                   \in {<<"golden_cross", 25>>, <<"bullish", 15>>, <<"death_cross", -25>>,
                        <<"bearish", -15>>}
            /\ macd[1].impact = macd_part
            /\ latest.MACD = latest.MACD_Signal => macd[1].impact < 0
            /\ (latest.MACD = latest.MACD_Signal /\ previous.MACD = previous.MACD_Signal) =>
                   macd[1].signal = "death_cross"
            /\ latest.Close = latest.MA60 =>
                   of("Price_vs_MA60")
                       = <<[indicator |-> "Price_vs_MA60", signal |-> "below", impact |-> -5]>>
            /\ analysis.score = IF total < 0 THEN 0 ELSE IF total > 100 THEN 100 ELSE total

\* MACD on its signal line on both rows and the close on MA60
C29_Witness ==
    /\ pc = "done"
    /\ req.endpoint = "category"
    /\ req.category = "trend"
    /\ req.latest.MACD = req.latest.MACD_Signal
    /\ req.previous.MACD = req.previous.MACD_Signal
    /\ req.latest.Close = req.latest.MA60
    /\ analysis.signals[1].signal = "death_cross"
    /\ analysis.signals[Len(analysis.signals)].signal = "below"
    /\ req.latest.ADX = 25
    /\ analysis.score = neutral_score - 25 - 5

(***************************************************************************)
(* Properties of the request validation of the comparison (SpecCompare)    *)
(***************************************************************************)
\* C24: a prediction comparison that names a model outside {linear,
\* random_forest, lstm} is answered with status 400, and none of its models
\* is run.
C24_InvalidModelAnswered400 ==
    (/\ pc = "done"
     /\ req.endpoint = "predict/compare"
     /\ \E i \in 1..Len(req.models) : req.models[i] \notin ModelTypes)
        => /\ result.raised
           /\ result.status = 400
           /\ \A i \in 1..Len(runs) : runs[i].state = "new"
           /\ results = <<>>

(***************************************************************************)
(* Properties of the forecast loop's failure path (SpecRoutines)           *)
(***************************************************************************)
\* C25: predict_next_days(n) returns either exactly n Forecast Points or the
\* empty list: when a step raises, the points of the steps before it are
\* discarded and the function still returns; predict_stock_price then
\* reports success = False, and success = True only with all n points.
C25_AllOrNothing ==
    (pc = "done" /\ req.endpoint = "buffer") =>
        /\ analysis.returned
        /\ Len(analysis.predictions) \in {0, req.days}
        /\ analysis.i < req.days => analysis.predictions = <<>>
        /\ ~analysis.report.raised
        /\ analysis.report.success <=> Len(analysis.predictions) = req.days
        /\ analysis.report.predictions = analysis.predictions

\* a three-day forecast whose third step raised after two points were made
C25_Witness ==
    /\ pc = "done"
    /\ req.endpoint = "buffer"
    /\ req.days = MaxSteps
    /\ analysis.i = MaxSteps - 1
    /\ Len(analysis.appended) = MaxSteps - 1
    /\ analysis.predictions = <<>>
    /\ ~analysis.report.success
    /\ analysis.report.message = MSG_PREDICTION_FAILED

C28_LevelsOnTheirSides ==
    (pc = "done" /\ req.endpoint = "key_levels") =>
        /\ analysis.risk_reward.ratio = (IF analysis.latest.ATR > 0 THEN 200 ELSE 0)
        /\ IF analysis.signal \in {"strong_sell", "sell"}
           THEN /\ analysis.stop_loss > 2 * analysis.latest.Close
                /\ analysis.take_profit < 2 * analysis.latest.Close
           ELSE /\ analysis.stop_loss < 2 * analysis.latest.Close
                /\ analysis.take_profit > 2 * analysis.latest.Close

\* C28 (amended): the risk-reward ratio is 2.0 when the latest ATR is positive
\* and 0 when it is 0.  With a positive ATR the stop loss is below the current
\* price and the take profit above it for buy-side and hold signals, and the
\* reverse for sell-side signals; with an ATR of 0 both levels equal the
\* current price for every signal.
C28_LevelsOnTheirSidesWhenVolatile ==
    (pc = "done" /\ req.endpoint = "key_levels") =>
        /\ analysis.risk_reward.ratio = (IF analysis.latest.ATR > 0 THEN 200 ELSE 0)
        /\ IF analysis.latest.ATR = 0
           THEN /\ analysis.stop_loss = 2 * analysis.latest.Close
                /\ analysis.take_profit = 2 * analysis.latest.Close
           ELSE IF analysis.signal \in {"strong_sell", "sell"}
           THEN /\ analysis.stop_loss > 2 * analysis.latest.Close
                /\ analysis.take_profit < 2 * analysis.latest.Close
           ELSE /\ analysis.stop_loss < 2 * analysis.latest.Close
                /\ analysis.take_profit > 2 * analysis.latest.Close

\* a sell report on a volatile row: the stop loss 1.5 ATR above the price,
\* the take profit 3 ATR below it, and a ratio of 2.0
C28_Witness ==
    /\ pc = "done"
    /\ req.endpoint = "key_levels"
    /\ analysis.signal = "sell"
    /\ analysis.latest.ATR = 2
    /\ analysis.stop_loss = 2 * analysis.latest.Close + 6
    /\ analysis.take_profit = 2 * analysis.latest.Close - 12
    /\ analysis.risk_reward.ratio = 200

(***************************************************************************)
(* Properties of the signal history (SpecRoutines)                         *)
(***************************************************************************)
\* C30: for a trailing window of m clean rows the history has max(0, m - 1)
\* entries in date order, one per row of the window but the first; the entry
\* of a day is what the handler gives on the window cut after that day, so no
\* later row enters it; buy_signals + sell_signals + hold_signals is the
\* number of entries, correct_signals <= total_signals <= max(0, entries - 1),
\* and the accuracy is 0 when total_signals is 0 and otherwise
\* 100 * correct / total (to two decimals), within [0, 100].
C30_HistoryReplaysEachDay ==
    (pc = "done" /\ req.endpoint = "history") =>
        LET history == analysis.history
            statistics == analysis.statistics
            first == Max(1, Len(req.clean) - req.days + 1)
            df == SubSeq(req.clean, first, Len(req.clean))
            m == Len(df)
        IN  /\ m = Min(Len(req.clean), req.days)
            /\ Len(history) = Max(0, m - 1)
            /\ \A k \in 1..Len(history) :
                   /\ history[k].date = first + k
                   /\ history[k].price = req.clean[first + k].Close
                   /\ k > 1 => history[k].date > history[k - 1].date
                   /\ \E cut \in {replay_signals(SubSeq(df, 1, k + 1), req.days)[k]} :
                          /\ history[k].signal = cut.signal
                          /\ history[k].score = cut.score
                          /\ history[k].confidence = cut.confidence
                          /\ history[k].price = cut.price
            /\ statistics.buy_signals + statistics.sell_signals + statistics.hold_signals
                   = Len(history)
            /\ statistics.correct_signals <= statistics.total_signals
            /\ statistics.total_signals <= Max(0, Len(history) - 1)
            /\ statistics.accuracy =
                   IF statistics.total_signals = 0 THEN 0
                   ELSE round2(100 * statistics.correct_signals, statistics.total_signals)
            /\ statistics.accuracy \in 0..10000

\* a table one row longer than the window: seven entries, the first for the
\* third row of the table; of three judged signals one was followed by the
\* move it called for
C30_Witness ==
    /\ pc = "done"
    /\ req.endpoint = "history"
    /\ Len(req.clean) = min_history_days + 1
    /\ Len(analysis.history) = min_history_days - 1
    /\ analysis.history[1].date = 3
    /\ analysis.statistics.total_signals = 3
    /\ analysis.statistics.correct_signals = 1
    /\ analysis.statistics.accuracy = 3333
    /\ analysis.statistics.hold_signals > 0

====
